---- MODULE Spec2Model ----
(***************************************************************************)
(* A model of onnx-mlir's DialectBuilder (MathBuilder, MemRefBuilder,      *)
(* VectorBuilder): the builders append nodes to a program and hand back    *)
(* typed value handles.  The model keeps the appended nodes in `ops` and   *)
(* the log of builder calls in `calls`; every node carries the value it    *)
(* evaluates to for the concrete operands of the run, so that numerical    *)
(* statements about the emitted program can be checked.                    *)
(*                                                                         *)
(* assert(...) and llvm_unreachable(...) are modelled as a fatal abort of  *)
(* the call (ok = FALSE): the nodes appended before the abort stay.        *)
(***************************************************************************)
EXTENDS Integers, Sequences, FiniteSets, TLC

VARIABLES
  ops,    \* the program: the sequence of nodes appended so far
  calls   \* the log of builder calls: inputs, returned handle, abort flag

vars == <<ops, calls>>

(***************************************************************************)
(* Bounds of the model.                                                    *)
(***************************************************************************)
\* Integer widths 1..MaxArithWidth are enumerated exhaustively in SpecMath.
MaxArithWidth == 3
\* Longest chain of cast calls (each call may consume the previous result).
MaxCastCalls == 2
\* Static extents 0..MaxExtent of the buffers.
MaxExtent == 10
\* multiReduction is called on 0..MaxVectors vectors.
MaxVectors == 8
\* A sequence of calls on one builder has at most MaxChainCalls calls.
MaxChainCalls == 3

(***************************************************************************)
(* Types.  A type is an element type with an optional 1-D vector shape:    *)
(* lanes = 0 is a scalar, lanes = n > 0 is vector<n x elem>.               *)
(***************************************************************************)
IntegerType(width, sign) ==
  [kind |-> "int", sign |-> sign, width |-> width, lanes |-> 0]

IndexType == [kind |-> "index", sign |-> "none", width |-> 0, lanes |-> 0]

FloatType(width) ==
  [kind |-> "float", sign |-> "none", width |-> width, lanes |-> 0]

NoType == [kind |-> "none", sign |-> "none", width |-> 0, lanes |-> 0]

\* Width of the signless integer that stands for index inside cast.
IndexIntWidth == 64

elementTypeWithVector(elementOrVectorType) ==
  [elementOrVectorType EXCEPT !.lanes = 0]

\* vecLanes = 0 stands for a null VectorType.
getTypeWithVector(vecLanes, elementType) ==
  [elementType EXCEPT !.lanes = vecLanes]

\* Type::isa<IntegerType>, isa<IndexType>, isa<FloatType>: false for vectors.
isaIntegerType(t) == t.kind = "int" /\ t.lanes = 0
isaIndexType(t) == t.kind = "index" /\ t.lanes = 0
isaFloatType(t) == t.kind = "float" /\ t.lanes = 0
isUnsignedInteger(t) == isaIntegerType(t) /\ t.sign = "unsigned"
isSignlessInteger(t) == isaIntegerType(t) /\ t.sign = "signless"
isInteger1(t) == isaIntegerType(t) /\ t.width = 1

isIntegerWithVector(elementOrVectorType) ==
  LET elementType == elementTypeWithVector(elementOrVectorType)
  IN isaIntegerType(elementType) \/ isaIndexType(elementType)

isUnsignedIntegerWithVector(elementOrVectorType) ==
  isUnsignedInteger(elementTypeWithVector(elementOrVectorType))

isFloatWithVector(elementOrVectorType) ==
  isaFloatType(elementTypeWithVector(elementOrVectorType))

(***************************************************************************)
(* Values.  The content of an integer (or index) scalar is its bit         *)
(* pattern, the set of the positions of its 1 bits; a float holds a small  *)
(* integral number n, kept as {n} (BigFloat: a number beyond the small     *)
(* ones); a vector holds one content per lane.  Poison is the content of   *)
(* a result the operation leaves undefined.                                *)
(***************************************************************************)
Poison == {-100000}
BigFloat == {-200000}

RECURSIVE ToNat(_)
ToNat(v) ==
  IF v = {} THEN 0
  ELSE LET i == CHOOSE x \in v : TRUE IN 2^i + ToNat(v \ {i})

\* The w-bit pattern of a natural n < 2^SmallBits.
SmallBits == 16
FromNat(n, w) ==
  {i \in 0..((IF w < SmallBits THEN w ELSE SmallBits) - 1) : (n \div (2^i)) % 2 = 1}

AllOnes(w) == 0..(w - 1)

\* Bit width of the content of a scalar of element type t.
BitsOf(t) == IF t.kind = "index" THEN IndexIntWidth ELSE t.width

MapLanes(F(_), ty, val) ==
  IF ty.lanes = 0 THEN F(val) ELSE [i \in 1..ty.lanes |-> F(val[i])]

MapLanes2(F(_, _), ty, a, b) ==
  IF ty.lanes = 0 THEN F(a, b) ELSE [i \in 1..ty.lanes |-> F(a[i], b[i])]

(***************************************************************************)
(* The builder.  A builder state B is [ops, ret, ok]: the nodes so far,    *)
(* the handle last returned, and whether no assertion has failed.  A       *)
(* handle is [id, ty, val]: id is the node's position in ops, or <= 0 for  *)
(* a value the caller supplied.                                            *)
(***************************************************************************)
NoValue == [id |-> 0, ty |-> NoType, val |-> {}]

Builder(nodes) == [ops |-> nodes, ret |-> NoValue, ok |-> TRUE]

\* A failed assert / llvm_unreachable.
Abort(B) == [B EXCEPT !.ok = FALSE, !.ret = NoValue]

\* return v;
Return(B, v) == IF B.ok THEN [B EXCEPT !.ret = v] ELSE B

\* A create that puts the new node in front of the nodes so far.
EmitAttrInFront(B, op, ty, args, val, attr) ==
  IF ~B.ok THEN B
  ELSE [ops |-> <<[op |-> op, ty |-> ty, val |-> val, attr |-> attr,
                   args |-> [i \in 1..Len(args) |-> args[i].id]]>> \o B.ops,
        ret |-> [id |-> 1, ty |-> ty, val |-> val],
        ok |-> TRUE]

\* b().create<Op>(loc(), ...): append one node, return its result.  attr
\* holds the node's attributes (an alignment, a shuffle mask).
EmitAttr(B, op, ty, args, val, attr) ==
  IF ~B.ok THEN B
  ELSE [ops |-> Append(B.ops,
                  [op |-> op, ty |-> ty, val |-> val, attr |-> attr,
                   args |-> [i \in 1..Len(args) |-> args[i].id]]),
        ret |-> [id |-> Len(B.ops) + 1, ty |-> ty, val |-> val],
        ok |-> TRUE]

Emit(B, op, ty, args, val) == EmitAttr(B, op, ty, args, val, <<>>)

(***************************************************************************)
(* What the emitted operations compute, per scalar (per lane of a vector). *)
(***************************************************************************)
\* builtin.unrealized_conversion_cast between integer types: the bit
\* pattern is kept when the widths agree, and nothing is defined otherwise.
UnrealizedCastVal(v, fromW, toW) == IF fromW = toW THEN v ELSE Poison

\* arith.extui: zero extension keeps the set of 1 bits.
ExtUIVal(v) == v

\* arith.extsi: the sign bit fills the new positions.
ExtSIVal(v, fromW, toW) ==
  IF v = Poison THEN Poison
  ELSE IF (fromW - 1) \in v THEN v \cup (fromW..(toW - 1)) ELSE v

\* arith.trunci: the low toW bits.
TruncIVal(v, toW) == IF v = Poison THEN Poison ELSE v \cap (0..(toW - 1))

\* arith.index_cast: sign extension or truncation between the two widths.
IndexCastVal(v, fromW, toW) ==
  IF fromW < toW THEN ExtSIVal(v, fromW, toW) ELSE TruncIVal(v, toW)

\* arith.cmpi ne: a 1-bit result.
CmpNeVal(a, b) ==
  IF a = Poison \/ b = Poison THEN Poison ELSE IF a # b THEN {0} ELSE {}

IsSmall(v) == v \subseteq (0..(SmallBits - 1))

\* arith.uitofp / arith.sitofp.
UIToFPVal(v) ==
  IF v = Poison THEN Poison ELSE IF IsSmall(v) THEN {ToNat(v)} ELSE BigFloat

SIToFPVal(v, w) ==
  IF v = Poison THEN Poison
  ELSE IF (w - 1) \notin v
    THEN (IF IsSmall(v) THEN {ToNat(v)} ELSE BigFloat)
    ELSE (IF IsSmall(AllOnes(w) \ v)
            THEN {0 - (ToNat(AllOnes(w) \ v) + 1)} ELSE BigFloat)

\* arith.fptosi / arith.fptoui: undefined when the number does not fit.
FloatNum(f) == CHOOSE n \in f : TRUE

FPToSIVal(f, w) ==
  IF f = Poison \/ f = BigFloat THEN Poison
  ELSE LET n == FloatNum(f)
           lim == 2^((IF w < SmallBits THEN w ELSE SmallBits) - 1)
       IN IF n >= 0
            THEN (IF n < lim THEN FromNat(n, w) ELSE Poison)
            ELSE (IF (0 - n) <= lim
                    THEN AllOnes(w) \ FromNat((0 - n) - 1, w)
                    ELSE Poison)

FPToUIVal(f, w) ==
  IF f = Poison \/ f = BigFloat THEN Poison
  ELSE LET n == FloatNum(f)
       IN IF n >= 0 /\ (w >= SmallBits \/ n < 2^w) THEN FromNat(n, w)
          ELSE Poison

\* arith.extf / arith.truncf: the small numbers of the model are exact.
FloatConvVal(f) == f

\* The order of two bit patterns read as unsigned numbers: the highest
\* bit in which they differ decides.
ULess(a, b) ==
  a # b /\ (CHOOSE i \in (a \ b) \cup (b \ a) :
              \A j \in (a \ b) \cup (b \ a) : j <= i) \in b

\* The order of two w-bit patterns read in two's complement.
SLess(a, b, w) ==
  IF ((w - 1) \in a) # ((w - 1) \in b) THEN (w - 1) \in a ELSE ULess(a, b)

\* arith.cmpi with the predicate pred on two w-bit operands.
CmpIVal(pred, a, b, w) ==
  IF a = Poison \/ b = Poison THEN Poison
  ELSE LET r == CASE pred = "eq" -> a = b
                  [] pred = "ne" -> a # b
                  [] pred = "slt" -> SLess(a, b, w)
                  [] pred = "sle" -> ~SLess(b, a, w)
                  [] pred = "sgt" -> SLess(b, a, w)
                  [] pred = "sge" -> ~SLess(a, b, w)
                  [] pred = "ult" -> ULess(a, b)
                  [] pred = "ule" -> ~ULess(b, a)
                  [] pred = "ugt" -> ULess(b, a)
                  [] pred = "uge" -> ~ULess(a, b)
       IN IF r THEN {0} ELSE {}

\* The float operations on the small numbers of the model; a result that
\* is no small whole number is BigFloat, and nothing is known of an
\* operation on BigFloat.
SmallFloats(a, b) ==
  a # Poison /\ b # Poison /\ a # BigFloat /\ b # BigFloat

\* arith.cmpf with an ordered predicate.
CmpFVal(pred, a, b) ==
  IF ~SmallFloats(a, b) THEN Poison
  ELSE LET x == FloatNum(a)
           y == FloatNum(b)
           r == CASE pred = "oeq" -> x = y
                  [] pred = "one" -> x # y
                  [] pred = "olt" -> x < y
                  [] pred = "ole" -> x <= y
                  [] pred = "ogt" -> x > y
                  [] pred = "oge" -> x >= y
       IN IF r THEN {0} ELSE {}

(***************************************************************************)
(* MathBuilder: reinterpretation between signed/unsigned and signless.     *)
(***************************************************************************)
castToSignless(B, val, width) ==
  LET valType == val.ty
      vecType == valType.lanes
      valElemType == elementTypeWithVector(valType)
  IN IF ~B.ok THEN B
     ELSE IF ~(isaIntegerType(valElemType) /\ ~isSignlessInteger(valElemType))
       THEN Abort(B)
     ELSE LET destType ==
                getTypeWithVector(vecType, IntegerType(width, "signless"))
              Conv(v) == UnrealizedCastVal(v, valElemType.width, width)
          IN Emit(B, "builtin.unrealized_conversion_cast", destType, <<val>>,
                  MapLanes(Conv, valType, val.val))

\* castToUnsigned that forgets the vector shape of its operand.
castToUnsignedScalar(B, val, width) ==
  LET valType == val.ty
      valElemType == elementTypeWithVector(valType)
  IN IF ~B.ok THEN B
     ELSE IF ~isaIntegerType(valElemType) THEN Abort(B)
     ELSE LET Conv(v) == UnrealizedCastVal(v, valElemType.width, width)
          IN Emit(B, "builtin.unrealized_conversion_cast",
                  IntegerType(width, "unsigned"), <<val>>,
                  MapLanes(Conv, valType, val.val))

castToUnsigned(B, val, width) ==
  LET valType == val.ty
      vecType == valType.lanes
      valElemType == elementTypeWithVector(valType)
  IN IF ~B.ok THEN B
     ELSE IF ~isaIntegerType(valElemType) THEN Abort(B)
     ELSE LET destType ==
                getTypeWithVector(vecType, IntegerType(width, "unsigned"))
              Conv(v) == UnrealizedCastVal(v, valElemType.width, width)
          IN Emit(B, "builtin.unrealized_conversion_cast", destType, <<val>>,
                  MapLanes(Conv, valType, val.val))

(***************************************************************************)
(* MathBuilder::constant (integer values) and VectorBuilder::splat.        *)
(***************************************************************************)
splat(B, vecType, val) ==
  Emit(B, "vector.splat", vecType, <<val>>,
       [i \in 1..vecType.lanes |-> val.val])

\* val is a natural below 2^SmallBits here (cast only asks for 0).
constant(B, type, val) ==
  LET elementType == elementTypeWithVector(type)
      B1 == IF isaFloatType(elementType)
              THEN Emit(B, "arith.constant", elementType, <<>>, {val})
            ELSE IF isaIntegerType(elementType)
              THEN (IF elementType.width = 1
                      THEN Emit(B, "arith.constant",
                                IntegerType(1, "signless"), <<>>,
                                IF val # 0 THEN {0} ELSE {})
                    ELSE IF isUnsignedInteger(elementType)
                      THEN LET Bc == Emit(B, "arith.constant",
                                          IntegerType(elementType.width, "signless"),
                                          <<>>, FromNat(val, elementType.width))
                           IN castToUnsigned(Bc, Bc.ret, elementType.width)
                    ELSE Emit(B, "arith.constant", elementType, <<>>,
                              FromNat(val, elementType.width)))
            ELSE IF isaIndexType(elementType)
              THEN Emit(B, "arith.constant", elementType, <<>>,
                        FromNat(val, IndexIntWidth))
            ELSE Abort(B)
  IN IF ~B.ok THEN B
     ELSE IF type.lanes # 0 THEN splat(B1, type, B1.ret)
     ELSE B1

(***************************************************************************)
(* MathBuilder::neq through createArithCmp.                                *)
(***************************************************************************)
BoolTypeLike(type) == getTypeWithVector(type.lanes, IntegerType(1, "signless"))

createArithCmpI(B, lhs, rhs, pred) ==
  IF ~B.ok THEN B
  ELSE IF lhs.ty # rhs.ty THEN Abort(B)
  ELSE IF ~isIntegerWithVector(lhs.ty) THEN Abort(B)
  ELSE LET Cmp(a, b) ==
             CmpIVal(pred, a, b, BitsOf(elementTypeWithVector(lhs.ty)))
       IN Emit(B, "arith.cmpi " \o pred, BoolTypeLike(lhs.ty), <<lhs, rhs>>,
               MapLanes2(Cmp, lhs.ty, lhs.val, rhs.val))

createArithCmpF(B, lhs, rhs, pred) ==
  IF ~B.ok THEN B
  ELSE IF lhs.ty # rhs.ty THEN Abort(B)
  ELSE IF ~isFloatWithVector(lhs.ty) THEN Abort(B)
  ELSE LET Cmp(a, b) == CmpFVal(pred, a, b)
       IN Emit(B, "arith.cmpf " \o pred, BoolTypeLike(lhs.ty), <<lhs, rhs>>,
               MapLanes2(Cmp, lhs.ty, lhs.val, rhs.val))

neq(B, lhs, rhs) ==
  IF ~B.ok THEN B
  ELSE IF lhs.ty # rhs.ty THEN Abort(B)
  ELSE IF isIntegerWithVector(lhs.ty) THEN createArithCmpI(B, lhs, rhs, "ne")
  ELSE IF isFloatWithVector(lhs.ty) THEN createArithCmpF(B, lhs, rhs, "one")
  ELSE Abort(B)

(***************************************************************************)
(* MathBuilder::cast and castToIndex.                                      *)
(***************************************************************************)
\* castFromBool with a sign extension in place of the zero extension.
castFromBoolSigned(B, src, destType, destIsIndex, savedDestType) ==
  IF isaFloatType(elementTypeWithVector(destType))
    THEN Emit(B, "arith.uitofp", destType, <<src>>,
              MapLanes(UIToFPVal, src.ty, src.val))
  ELSE LET Ext(v) == ExtSIVal(v, 1, BitsOf(elementTypeWithVector(destType)))
           Bd == Emit(B, "arith.extsi", destType, <<src>>,
                      MapLanes(Ext, src.ty, src.val))
           ToIndex(v) == IndexCastVal(v, IndexIntWidth, IndexIntWidth)
       IN IF destIsIndex
            THEN Emit(Bd, "arith.index_cast", savedDestType, <<Bd.ret>>,
                      MapLanes(ToIndex, Bd.ret.ty, Bd.ret.val))
          ELSE Bd

\* Boolean source: "Boolean to int/float conversions. Boolean are unsigned."
castFromBool(B, src, destType, destIsIndex, savedDestType) ==
  IF isaFloatType(elementTypeWithVector(destType))
    THEN Emit(B, "arith.uitofp", destType, <<src>>,
              MapLanes(UIToFPVal, src.ty, src.val))
  ELSE LET Bd == Emit(B, "arith.extui", destType, <<src>>,
                      MapLanes(ExtUIVal, src.ty, src.val))
           ToIndex(v) == IndexCastVal(v, IndexIntWidth, IndexIntWidth)
       IN IF destIsIndex
            THEN Emit(Bd, "arith.index_cast", savedDestType, <<Bd.ret>>,
                      MapLanes(ToIndex, Bd.ret.ty, Bd.ret.val))
          ELSE Bd

\* Boolean destination by truncation to the lowest bit.
castToBoolTrunc(B, src, srcVecType) ==
  LET Low(v) == TruncIVal(v, 1)
  IN Emit(B, "arith.trunci", BoolTypeLike(src.ty), <<src>>,
          MapLanes(Low, src.ty, src.val))

\* Boolean destination: "just compare value to be unequal zero".
castToBool(B, src, srcVecType) ==
  LET srcType == src.ty
      srcElemType == elementTypeWithVector(srcType)
      resign == isaIntegerType(srcElemType) /\ ~isSignlessInteger(srcElemType)
      constantType ==
        IF resign
          THEN getTypeWithVector(srcVecType,
                                 IntegerType(srcElemType.width, "signless"))
        ELSE srcType
      B1 == IF resign THEN castToSignless(B, src, srcElemType.width)
            ELSE Return(B, src)
      B2 == constant(B1, constantType, 0)
  IN neq(B2, B1.ret, B2.ret)

castFloatToFloat(B, src, destType, bitExtend, bitTrunc) ==
  IF ~(bitExtend \/ bitTrunc) THEN Abort(B)
  ELSE Emit(B, IF bitExtend THEN "arith.extf" ELSE "arith.truncf", destType,
            <<src>>, MapLanes(FloatConvVal, src.ty, src.val))

castFloatToInt(B, src, destType, destElemWidth, destIsIndex, savedDestType) ==
  IF isUnsignedInteger(destType)
    THEN LET castType == IntegerType(destElemWidth, "signless")
             ToUI(f) == FPToUIVal(f, destElemWidth)
             Bc == Emit(B, "arith.fptoui", castType, <<src>>,
                        MapLanes(ToUI, src.ty, src.val))
         IN castToUnsigned(Bc, Bc.ret, destElemWidth)
  ELSE LET ToSI(f) == FPToSIVal(f, destElemWidth)
           ToIndex(v) == IndexCastVal(v, IndexIntWidth, IndexIntWidth)
           Bd == Emit(B, "arith.fptosi", destType, <<src>>,
                      MapLanes(ToSI, src.ty, src.val))
       IN IF destIsIndex
            THEN Emit(Bd, "arith.index_cast", savedDestType, <<Bd.ret>>,
                      MapLanes(ToIndex, Bd.ret.ty, Bd.ret.val))
          ELSE Bd

castIntToFloat(B, src, destType, srcElemType, srcElemWidth) ==
  IF isUnsignedInteger(srcElemType)
    THEN LET Bc == castToSignless(B, src, srcElemWidth)
         IN Emit(Bc, "arith.uitofp", destType, <<Bc.ret>>,
                 MapLanes(UIToFPVal, Bc.ret.ty, Bc.ret.val))
  ELSE LET ToFP(v) == SIToFPVal(v, srcElemWidth)
       IN Emit(B, "arith.sitofp", destType, <<src>>,
               MapLanes(ToFP, src.ty, src.val))

\* castUnsignedToInt that never reinterprets its result back to unsigned.
castUnsignedToIntNoRecast(B, src, destType, srcElemWidth, destElemWidth, bitExtend, bitTrunc) ==
  IF srcElemWidth = destElemWidth /\ isSignlessInteger(destType)
    THEN castToSignless(B, src, srcElemWidth)
  ELSE IF ~(bitExtend \/ bitTrunc) THEN Abort(B)
  ELSE LET Bc == castToSignless(B, src, srcElemWidth)
           castType == IntegerType(destElemWidth, "signless")
           Tr(v) == TruncIVal(v, destElemWidth)
       IN IF bitExtend
            THEN Emit(Bc, "arith.extui", castType, <<Bc.ret>>,
                      MapLanes(ExtUIVal, Bc.ret.ty, Bc.ret.val))
          ELSE Emit(Bc, "arith.trunci", castType, <<Bc.ret>>,
                    MapLanes(Tr, Bc.ret.ty, Bc.ret.val))

\* Unsigned source of the int to int conversion.
castUnsignedToInt(B, src, destType, srcElemWidth, destElemWidth, bitExtend, bitTrunc) ==
  IF srcElemWidth = destElemWidth /\ isSignlessInteger(destType)
    THEN castToSignless(B, src, srcElemWidth)
  ELSE IF ~(bitExtend \/ bitTrunc) THEN Abort(B)
  ELSE LET Bc == castToSignless(B, src, srcElemWidth)
           castType == IntegerType(destElemWidth, "signless")
           Tr(v) == TruncIVal(v, destElemWidth)
           Bx == IF bitExtend
                   THEN Emit(Bc, "arith.extui", castType, <<Bc.ret>>,
                             MapLanes(ExtUIVal, Bc.ret.ty, Bc.ret.val))
                 ELSE Emit(Bc, "arith.trunci", castType, <<Bc.ret>>,
                           MapLanes(Tr, Bc.ret.ty, Bc.ret.val))
       IN IF isUnsignedInteger(destType)
            THEN castToUnsigned(Bx, Bx.ret, destElemWidth)
          ELSE Bx

\* castSignedToInt without the same-width shortcut: the value reaches the
\* unsigned type through a truncation to its own width.
castSignedToIntNoShortcut(B, src, destType, srcElemWidth, destElemWidth, bitExtend, bitTrunc, destIsIndex) ==
  LET Ext(v) == ExtSIVal(v, srcElemWidth, destElemWidth)
      Tr(v) == TruncIVal(v, destElemWidth)
      ToIndex(v) == IndexCastVal(v, IndexIntWidth, IndexIntWidth)
      Bd == IF bitExtend
              THEN Emit(B, "arith.extsi", destType, <<src>>,
                        MapLanes(Ext, src.ty, src.val))
            ELSE Emit(B, "arith.trunci", destType, <<src>>,
                      MapLanes(Tr, src.ty, src.val))
  IN IF destIsIndex
       THEN Emit(Bd, "arith.index_cast", IndexType, <<Bd.ret>>,
                 MapLanes(ToIndex, Bd.ret.ty, Bd.ret.val))
     ELSE IF isUnsignedInteger(destType)
       THEN castToUnsigned(Bd, Bd.ret, destElemWidth)
     ELSE Bd

\* Signed or signless source of the int to int conversion.
castSignedToInt(B, src, destType, srcElemWidth, destElemWidth, bitExtend, bitTrunc, destIsIndex) ==
  IF srcElemWidth = destElemWidth /\ isUnsignedInteger(destType)
    THEN castToUnsigned(B, src, srcElemWidth)
  ELSE LET Ext(v) == ExtSIVal(v, srcElemWidth, destElemWidth)
           Tr(v) == TruncIVal(v, destElemWidth)
           ToIndex(v) == IndexCastVal(v, IndexIntWidth, IndexIntWidth)
           Bd == IF bitExtend
                   THEN Emit(B, "arith.extsi", destType, <<src>>,
                             MapLanes(Ext, src.ty, src.val))
                 ELSE IF bitTrunc
                   THEN Emit(B, "arith.trunci", destType, <<src>>,
                             MapLanes(Tr, src.ty, src.val))
                 ELSE Return(B, src)
       IN IF destIsIndex
            THEN Emit(Bd, "arith.index_cast", IndexType, <<Bd.ret>>,
                      MapLanes(ToIndex, Bd.ret.ty, Bd.ret.val))
          ELSE IF isUnsignedInteger(destType)
            THEN castToUnsigned(Bd, Bd.ret, destElemWidth)
          ELSE Bd

\* The conversion matrix, after the identity check and index normalisation.
castMatrix(B, src, destType, srcVecType, destIsIndex, savedDestType) ==
  LET srcType == src.ty
      srcElemType == elementTypeWithVector(srcType)
      destElemType == elementTypeWithVector(destType)
      srcElemWidth == srcElemType.width
      destElemWidth == destElemType.width
      bitExtend == srcElemWidth < destElemWidth
      bitTrunc == srcElemWidth > destElemWidth
  IN IF ~(isaIntegerType(srcElemType) \/ isaFloatType(srcElemType))
       THEN Abort(B)
     ELSE IF ~(isaIntegerType(destElemType) \/ isaFloatType(destElemType))
       THEN Abort(B)
     ELSE IF isInteger1(srcElemType)
       THEN castFromBool(B, src, destType, destIsIndex, savedDestType)
     ELSE IF isInteger1(destElemType)
       THEN castToBool(B, src, srcVecType)
     ELSE IF isaFloatType(srcElemType) /\ isaFloatType(destElemType)
       THEN castFloatToFloat(B, src, destType, bitExtend, bitTrunc)
     ELSE IF isaFloatType(srcElemType) /\ isaIntegerType(destElemType)
       THEN castFloatToInt(B, src, destType, destElemWidth, destIsIndex,
                           savedDestType)
     ELSE IF isaIntegerType(srcElemType) /\ isaFloatType(destElemType)
       THEN castIntToFloat(B, src, destType, srcElemType, srcElemWidth)
     ELSE IF isaIntegerType(srcType) /\ isaIntegerType(destType)
       THEN (IF isUnsignedInteger(srcType)
               THEN castUnsignedToInt(B, src, destType, srcElemWidth,
                                      destElemWidth, bitExtend, bitTrunc)
             ELSE castSignedToInt(B, src, destType, srcElemWidth,
                                  destElemWidth, bitExtend, bitTrunc,
                                  destIsIndex))
     ELSE Abort(B)

\* cast that normalises an index source before it looks for the identity.
castIndexFirst(B, destType, src) ==
  LET srcType == src.ty
      srcVecType == srcType.lanes
      destVecType == destType.lanes
      srcElemType == elementTypeWithVector(srcType)
      destElemType == elementTypeWithVector(destType)
      i64 == IntegerType(IndexIntWidth, "signless")
      FromIndex(v) == IndexCastVal(v, IndexIntWidth, IndexIntWidth)
      B1 == IF isaIndexType(srcElemType)
              THEN Emit(B, "arith.index_cast",
                        getTypeWithVector(srcVecType, i64), <<src>>,
                        MapLanes(FromIndex, srcType, src.val))
            ELSE Return(B, src)
      destIsIndex == isaIndexType(destElemType)
      destType1 == IF destIsIndex THEN getTypeWithVector(destVecType, i64)
                   ELSE destType
  IN IF ~B.ok THEN B
     ELSE IF ~((srcVecType # 0 /\ destVecType # 0)
               \/ (srcVecType = 0 /\ destVecType = 0))
       THEN Abort(B)
     ELSE IF B1.ret.ty = destType1 THEN B1
     ELSE castMatrix(B1, B1.ret, destType1, srcVecType, destIsIndex, destType)

cast(B, destType, src) ==
  LET srcType == src.ty
      srcVecType == srcType.lanes
      destVecType == destType.lanes
      srcElemType == elementTypeWithVector(srcType)
      destElemType == elementTypeWithVector(destType)
      i64 == IntegerType(IndexIntWidth, "signless")
      FromIndex(v) == IndexCastVal(v, IndexIntWidth, IndexIntWidth)
      \* Process index types first.
      B1 == IF isaIndexType(srcElemType)
              THEN Emit(B, "arith.index_cast",
                        getTypeWithVector(srcVecType, i64), <<src>>,
                        MapLanes(FromIndex, srcType, src.val))
            ELSE Return(B, src)
      destIsIndex == isaIndexType(destElemType)
      destType1 == IF destIsIndex THEN getTypeWithVector(destVecType, i64)
                   ELSE destType
  IN IF ~B.ok THEN B
     ELSE IF ~((srcVecType # 0 /\ destVecType # 0)
               \/ (srcVecType = 0 /\ destVecType = 0))
       THEN Abort(B)
     ELSE IF srcType = destType THEN Return(B, src)
     ELSE castMatrix(B1, B1.ret, destType1, srcVecType, destIsIndex, destType)

castToIndex(B, src) == cast(B, IndexType, src)

(***************************************************************************)
(* Two's-complement arithmetic on bit patterns.                            *)
(***************************************************************************)
Bit(v, i) == IF i \in v THEN 1 ELSE 0

\* The bits i..w-1 of a + b + carry, by ripple carry.
RECURSIVE AddBits(_, _, _, _, _)
AddBits(a, b, i, carry, w) ==
  IF i >= w THEN {}
  ELSE LET s == Bit(a, i) + Bit(b, i) + carry
       IN (IF s % 2 = 1 THEN {i} ELSE {})
            \cup AddBits(a, b, i + 1, s \div 2, w)

ShiftLeft(v, k, w) == {i + k : i \in v} \cap (0..(w - 1))
ShiftRight(v, k) == {i - k : i \in {j \in v : j >= k}}

\* The low w bits of a * b, by shift and add over the 1 bits of b.
RECURSIVE MulBits(_, _, _)
MulBits(a, b, w) ==
  IF b = {} THEN {}
  ELSE LET i == CHOOSE x \in b : TRUE
           rest == MulBits(a, b \ {i}, w)
       IN AddBits(rest, ShiftLeft(a, i, w), 0, 0, w)

\* arith.addi and the sum of arith.addui_extended: the low w bits of a + b.
AddIVal(a, b, w) ==
  IF a = Poison \/ b = Poison THEN Poison ELSE AddBits(a, b, 0, 0, w)

\* The overflow flag of arith.addui_extended: the carry out of bit w-1.
AddUIOverflowVal(a, b, w) ==
  IF a = Poison \/ b = Poison THEN Poison
  ELSE ShiftRight(AddBits(a, b, 0, 0, w + 1), w)

\* arith.muli and the low half of arith.mului_extended.
MulIVal(a, b, w) ==
  IF a = Poison \/ b = Poison THEN Poison ELSE MulBits(a, b, w)

\* The high half of arith.mului_extended: bits w..2w-1 of the full product.
MulUIHighVal(a, b, w) ==
  IF a = Poison \/ b = Poison THEN Poison
  ELSE ShiftRight(MulBits(a, b, 2 * w), w)

\* arith.addf / arith.mulf on the small numbers of the model.
AddFVal(a, b) ==
  IF a = Poison \/ b = Poison THEN Poison
  ELSE IF a = BigFloat \/ b = BigFloat THEN BigFloat
  ELSE {FloatNum(a) + FloatNum(b)}

MulFVal(a, b) ==
  IF a = Poison \/ b = Poison THEN Poison
  ELSE IF a = BigFloat \/ b = BigFloat THEN BigFloat
  ELSE {FloatNum(a) * FloatNum(b)}

\* arith.subi: a + ~b + 1 on w bits.
SubIVal(a, b, w) ==
  IF a = Poison \/ b = Poison THEN Poison
  ELSE AddBits(a, AllOnes(w) \ b, 0, 1, w)

\* arith.andi, arith.ori, arith.xori.
AndIVal(a, b) == IF a = Poison \/ b = Poison THEN Poison ELSE a \cap b
OrIVal(a, b) == IF a = Poison \/ b = Poison THEN Poison ELSE a \cup b
XOrIVal(a, b) ==
  IF a = Poison \/ b = Poison THEN Poison ELSE (a \ b) \cup (b \ a)

\* arith.minui, arith.maxui, arith.minsi, arith.maxsi.
MinUIVal(a, b) ==
  IF a = Poison \/ b = Poison THEN Poison ELSE IF ULess(a, b) THEN a ELSE b
MaxUIVal(a, b) ==
  IF a = Poison \/ b = Poison THEN Poison ELSE IF ULess(a, b) THEN b ELSE a
MinSIVal(a, b, w) ==
  IF a = Poison \/ b = Poison THEN Poison ELSE IF SLess(a, b, w) THEN a ELSE b
MaxSIVal(a, b, w) ==
  IF a = Poison \/ b = Poison THEN Poison ELSE IF SLess(a, b, w) THEN b ELSE a

\* The number a w-bit pattern stands for in two's complement, and back;
\* the divisions below are taken on operands of magnitude below
\* 2^SmallBits.
SignedOf(v, w) ==
  IF (w - 1) \in v THEN 0 - (ToNat(AllOnes(w) \ v) + 1) ELSE ToNat(v)

FromInt(n, w) ==
  IF n >= 0 THEN FromNat(n, w)
  ELSE (AllOnes(w) \ FromNat((0 - n) - 1, w))

Magnitude(n) == IF n < 0 THEN 0 - n ELSE n

\* The quotient rounded toward zero, and toward minus infinity.
TruncQuot(x, y) ==
  LET q == Magnitude(x) \div Magnitude(y)
  IN IF (x < 0) # (y < 0) THEN 0 - q ELSE q

FloorQuot(x, y) ==
  LET q == TruncQuot(x, y)
  IN IF q * y # x /\ ((x < 0) # (y < 0)) THEN q - 1 ELSE q

\* arith.divui, arith.remui, arith.ceildivui: undefined for a zero divisor.
DivUIVal(a, b, w) ==
  IF a = Poison \/ b = Poison \/ b = {} THEN Poison
  ELSE FromNat(ToNat(a) \div ToNat(b), w)

RemUIVal(a, b, w) ==
  IF a = Poison \/ b = Poison \/ b = {} THEN Poison
  ELSE FromNat(ToNat(a) % ToNat(b), w)

CeilDivUIVal(a, b, w) ==
  IF a = Poison \/ b = Poison \/ b = {} THEN Poison
  ELSE FromNat((ToNat(a) + ToNat(b) - 1) \div ToNat(b), w)

\* The signed divisions are undefined for a zero divisor and for the
\* minimum divided by -1.
SignedDivDefined(a, b, w) ==
  /\ a # Poison /\ b # Poison /\ b # {}
  /\ ~(a = {w - 1} /\ b = AllOnes(w))

\* arith.divsi, arith.remsi, arith.ceildivsi, arith.floordivsi.
DivSIVal(a, b, w) ==
  IF ~SignedDivDefined(a, b, w) THEN Poison
  ELSE FromInt(TruncQuot(SignedOf(a, w), SignedOf(b, w)), w)

RemSIVal(a, b, w) ==
  IF ~SignedDivDefined(a, b, w) THEN Poison
  ELSE LET x == SignedOf(a, w)
           y == SignedOf(b, w)
       IN FromInt(x - TruncQuot(x, y) * y, w)

FloorDivSIVal(a, b, w) ==
  IF ~SignedDivDefined(a, b, w) THEN Poison
  ELSE FromInt(FloorQuot(SignedOf(a, w), SignedOf(b, w)), w)

CeilDivSIVal(a, b, w) ==
  IF ~SignedDivDefined(a, b, w) THEN Poison
  ELSE FromInt(0 - FloorQuot(0 - SignedOf(a, w), SignedOf(b, w)), w)

SubFVal(a, b) ==
  IF a = Poison \/ b = Poison THEN Poison
  ELSE IF ~SmallFloats(a, b) THEN BigFloat
  ELSE {FloatNum(a) - FloatNum(b)}

DivFVal(a, b) ==
  IF a = Poison \/ b = Poison THEN Poison
  ELSE IF ~SmallFloats(a, b) \/ FloatNum(b) = 0 THEN BigFloat
  ELSE IF TruncQuot(FloatNum(a), FloatNum(b)) * FloatNum(b) = FloatNum(a)
    THEN {TruncQuot(FloatNum(a), FloatNum(b))}
  ELSE BigFloat

RemFVal(a, b) ==
  IF a = Poison \/ b = Poison THEN Poison
  ELSE IF ~SmallFloats(a, b) \/ FloatNum(b) = 0 THEN BigFloat
  ELSE {FloatNum(a) - TruncQuot(FloatNum(a), FloatNum(b)) * FloatNum(b)}

MinFVal(a, b) ==
  IF a = Poison \/ b = Poison THEN Poison
  ELSE IF ~SmallFloats(a, b) THEN BigFloat
  ELSE IF FloatNum(a) < FloatNum(b) THEN a ELSE b

MaxFVal(a, b) ==
  IF a = Poison \/ b = Poison THEN Poison
  ELSE IF ~SmallFloats(a, b) THEN BigFloat
  ELSE IF FloatNum(a) < FloatNum(b) THEN b ELSE a

\* math.copysign: the magnitude of a with the sign of b.
CopySignVal(a, b) ==
  IF a = Poison \/ b = Poison THEN Poison
  ELSE IF ~SmallFloats(a, b) THEN BigFloat
  ELSE IF FloatNum(b) < 0 THEN {0 - Magnitude(FloatNum(a))}
  ELSE {Magnitude(FloatNum(a))}

\* math.powf for a whole exponent 0, 1 or 2.
PowFVal(a, b) ==
  IF a = Poison \/ b = Poison THEN Poison
  ELSE IF ~SmallFloats(a, b) THEN BigFloat
  ELSE IF FloatNum(b) = 0 THEN {1}
  ELSE IF FloatNum(b) = 1 THEN a
  ELSE IF FloatNum(b) = 2 THEN {FloatNum(a) * FloatNum(a)}
  ELSE BigFloat

\* arith.select: the first value where the condition is true.
SelectVal(c, a, b) == IF c = Poison THEN Poison ELSE IF c = {0} THEN a ELSE b

(***************************************************************************)
(* MathBuilder::add and MathBuilder::mul.                                  *)
(***************************************************************************)
\* The unsigned path of add: signless operands, extended add, back again.
addUnsigned(B, lhs, rhs) ==
  LET elemWidth == elementTypeWithVector(lhs.ty).width
      B1 == castToSignless(B, lhs, elemWidth)
      B2 == castToSignless(B1, rhs, elemWidth)
      Sum(a, b) == AddIVal(a, b, elemWidth)
      B3 == Emit(B2, "arith.addui_extended.sum", B1.ret.ty,
                 <<B1.ret, B2.ret>>,
                 MapLanes2(Sum, B1.ret.ty, B1.ret.val, B2.ret.val))
  IN castToUnsigned(B3, B3.ret, elemWidth)

add(B, lhs, rhs) ==
  LET elemType == elementTypeWithVector(lhs.ty)
      Sum(a, b) == AddIVal(a, b, BitsOf(elemType))
  IN IF ~B.ok THEN B
     ELSE IF lhs.ty # rhs.ty THEN Abort(B)
     ELSE IF isIntegerWithVector(lhs.ty)
       THEN (IF isUnsignedInteger(elemType) THEN addUnsigned(B, lhs, rhs)
             ELSE Emit(B, "arith.addi", lhs.ty, <<lhs, rhs>>,
                       MapLanes2(Sum, lhs.ty, lhs.val, rhs.val)))
     ELSE IF isFloatWithVector(lhs.ty)
       THEN Emit(B, "arith.addf", lhs.ty, <<lhs, rhs>>,
                 MapLanes2(AddFVal, lhs.ty, lhs.val, rhs.val))
     ELSE Abort(B)

\* The loop of addOffsetToLeastSignificant with the offsets added to the
\* leading positions instead of the trailing ones.
RECURSIVE OffsetLoopMostSignificant(_, _, _, _, _, _)
OffsetLoopMostSignificant(B, indices, offsets, firstOffset, i, out) ==
  IF ~(i < Len(indices)) \/ ~B.ok THEN [B |-> B, computedIndices |-> out]
  ELSE IF ~(i < Len(offsets))
    THEN OffsetLoopMostSignificant(B, indices, offsets, firstOffset, i + 1,
                                   Append(out, indices[i + 1]))
  ELSE LET Ba == add(B, offsets[i + 1], indices[i + 1])
       IN OffsetLoopMostSignificant(Ba, indices, offsets, firstOffset, i + 1,
                                    Append(out, Ba.ret))

\* The loop of addOffsetToLeastSignificant from position i (counted from
\* 0) on; out is computedIndices so far.
RECURSIVE OffsetLoop(_, _, _, _, _, _)
OffsetLoop(B, indices, offsets, firstOffset, i, out) ==
  IF ~(i < Len(indices)) \/ ~B.ok THEN [B |-> B, computedIndices |-> out]
  ELSE IF i < firstOffset
    THEN OffsetLoop(B, indices, offsets, firstOffset, i + 1,
                    Append(out, indices[i + 1]))
  ELSE LET Ba == add(B, offsets[i - firstOffset + 1], indices[i + 1])
       IN OffsetLoop(Ba, indices, offsets, firstOffset, i + 1,
                     Append(out, Ba.ret))

\* addOffsetToLeastSignificant(indices, offsets, computedIndices): returns
\* the builder and the content of computedIndices after the call.
addOffsetToLeastSignificant(B, indices, offsets, computedIndices) ==
  LET indexRank == Len(indices)
      offsetRank == Len(offsets)
      firstOffset == indexRank - offsetRank
  IN IF ~B.ok THEN [B |-> B, computedIndices |-> computedIndices]
     ELSE IF ~(firstOffset >= 0)
       THEN [B |-> Abort(B), computedIndices |-> computedIndices]
     ELSE OffsetLoop(B, indices, offsets, firstOffset, 0, <<>>)

\* mulUnsigned reading the high half of the extended product (getHigh).
mulUnsignedHigh(B, lhs, rhs) ==
  LET elemWidth == elementTypeWithVector(lhs.ty).width
      B1 == castToSignless(B, lhs, elemWidth)
      B2 == castToSignless(B1, rhs, elemWidth)
      High(a, b) == MulUIHighVal(a, b, elemWidth)
      B3 == Emit(B2, "arith.mului_extended.high", B1.ret.ty,
                 <<B1.ret, B2.ret>>,
                 MapLanes2(High, B1.ret.ty, B1.ret.val, B2.ret.val))
  IN castToUnsigned(B3, B3.ret, elemWidth)

\* The unsigned path of mul: signless operands, low half of the extended
\* product, back again.
mulUnsigned(B, lhs, rhs) ==
  LET elemWidth == elementTypeWithVector(lhs.ty).width
      B1 == castToSignless(B, lhs, elemWidth)
      B2 == castToSignless(B1, rhs, elemWidth)
      Low(a, b) == MulIVal(a, b, elemWidth)
      B3 == Emit(B2, "arith.mului_extended.low", B1.ret.ty,
                 <<B1.ret, B2.ret>>,
                 MapLanes2(Low, B1.ret.ty, B1.ret.val, B2.ret.val))
  IN castToUnsigned(B3, B3.ret, elemWidth)

mul(B, lhs, rhs) ==
  LET elemType == elementTypeWithVector(lhs.ty)
      Prod(a, b) == MulIVal(a, b, BitsOf(elemType))
  IN IF ~B.ok THEN B
     ELSE IF lhs.ty # rhs.ty THEN Abort(B)
     ELSE IF isIntegerWithVector(lhs.ty)
       THEN (IF isUnsignedInteger(elemType) THEN mulUnsigned(B, lhs, rhs)
             ELSE Emit(B, "arith.muli", lhs.ty, <<lhs, rhs>>,
                       MapLanes2(Prod, lhs.ty, lhs.val, rhs.val)))
     ELSE IF isFloatWithVector(lhs.ty)
       THEN Emit(B, "arith.mulf", lhs.ty, <<lhs, rhs>>,
                 MapLanes2(MulFVal, lhs.ty, lhs.val, rhs.val))
     ELSE Abort(B)

(***************************************************************************)
(* MathBuilder: the other operations of two and three operands.            *)
(***************************************************************************)
andi(B, lhs, rhs) ==
  LET elemType == elementTypeWithVector(lhs.ty)
      F(a, b) == AndIVal(a, b)
  IN IF ~B.ok THEN B
     ELSE IF lhs.ty # rhs.ty THEN Abort(B)
     ELSE IF isIntegerWithVector(lhs.ty)
       THEN Emit(B, "arith.andi", lhs.ty, <<lhs, rhs>>,
                 MapLanes2(F, lhs.ty, lhs.val, rhs.val))
     ELSE Abort(B)

ori(B, lhs, rhs) ==
  LET elemType == elementTypeWithVector(lhs.ty)
      F(a, b) == OrIVal(a, b)
  IN IF ~B.ok THEN B
     ELSE IF lhs.ty # rhs.ty THEN Abort(B)
     ELSE IF isIntegerWithVector(lhs.ty)
       THEN Emit(B, "arith.ori", lhs.ty, <<lhs, rhs>>,
                 MapLanes2(F, lhs.ty, lhs.val, rhs.val))
     ELSE Abort(B)

xori(B, lhs, rhs) ==
  LET elemType == elementTypeWithVector(lhs.ty)
      F(a, b) == XOrIVal(a, b)
  IN IF ~B.ok THEN B
     ELSE IF lhs.ty # rhs.ty THEN Abort(B)
     ELSE IF isIntegerWithVector(lhs.ty)
       THEN Emit(B, "arith.xori", lhs.ty, <<lhs, rhs>>,
                 MapLanes2(F, lhs.ty, lhs.val, rhs.val))
     ELSE Abort(B)

sub(B, lhs, rhs) ==
  LET elemType == elementTypeWithVector(lhs.ty)
      F(a, b) == SubIVal(a, b, BitsOf(elemType))
  IN IF ~B.ok THEN B
     ELSE IF lhs.ty # rhs.ty THEN Abort(B)
     ELSE IF isIntegerWithVector(lhs.ty)
       THEN Emit(B, "arith.subi", lhs.ty, <<lhs, rhs>>,
                 MapLanes2(F, lhs.ty, lhs.val, rhs.val))
     ELSE IF isFloatWithVector(lhs.ty)
       THEN Emit(B, "arith.subf", lhs.ty, <<lhs, rhs>>,
                 MapLanes2(SubFVal, lhs.ty, lhs.val, rhs.val))
     ELSE Abort(B)

div(B, lhs, rhs) ==
  LET elemType == elementTypeWithVector(lhs.ty)
      U(a, b) == DivUIVal(a, b, BitsOf(elemType))
      S(a, b) == DivSIVal(a, b, BitsOf(elemType))
  IN IF ~B.ok THEN B
     ELSE IF lhs.ty # rhs.ty THEN Abort(B)
     ELSE IF isFloatWithVector(lhs.ty)
       THEN Emit(B, "arith.divf", lhs.ty, <<lhs, rhs>>,
                 MapLanes2(DivFVal, lhs.ty, lhs.val, rhs.val))
     ELSE IF isUnsignedIntegerWithVector(lhs.ty)
       THEN Emit(B, "arith.divui", lhs.ty, <<lhs, rhs>>,
                 MapLanes2(U, lhs.ty, lhs.val, rhs.val))
     ELSE IF isIntegerWithVector(lhs.ty)
       THEN Emit(B, "arith.divsi", lhs.ty, <<lhs, rhs>>,
                 MapLanes2(S, lhs.ty, lhs.val, rhs.val))
     ELSE Abort(B)

rem(B, lhs, rhs) ==
  LET elemType == elementTypeWithVector(lhs.ty)
      U(a, b) == RemUIVal(a, b, BitsOf(elemType))
      S(a, b) == RemSIVal(a, b, BitsOf(elemType))
  IN IF ~B.ok THEN B
     ELSE IF lhs.ty # rhs.ty THEN Abort(B)
     ELSE IF isFloatWithVector(lhs.ty)
       THEN Emit(B, "arith.remf", lhs.ty, <<lhs, rhs>>,
                 MapLanes2(RemFVal, lhs.ty, lhs.val, rhs.val))
     ELSE IF isUnsignedIntegerWithVector(lhs.ty)
       THEN Emit(B, "arith.remui", lhs.ty, <<lhs, rhs>>,
                 MapLanes2(U, lhs.ty, lhs.val, rhs.val))
     ELSE IF isIntegerWithVector(lhs.ty)
       THEN Emit(B, "arith.remsi", lhs.ty, <<lhs, rhs>>,
                 MapLanes2(S, lhs.ty, lhs.val, rhs.val))
     ELSE Abort(B)

copySign(B, rem_, dividend) ==
  IF ~B.ok THEN B
  ELSE IF rem_.ty # dividend.ty THEN Abort(B)
  ELSE IF isFloatWithVector(rem_.ty)
    THEN Emit(B, "math.copysign", rem_.ty, <<rem_, dividend>>,
              MapLanes2(CopySignVal, rem_.ty, rem_.val, dividend.val))
  ELSE Abort(B)

ceilDiv(B, lhs, rhs) ==
  LET elemType == elementTypeWithVector(lhs.ty)
      U(a, b) == CeilDivUIVal(a, b, BitsOf(elemType))
      S(a, b) == CeilDivSIVal(a, b, BitsOf(elemType))
  IN IF ~B.ok THEN B
     ELSE IF lhs.ty # rhs.ty THEN Abort(B)
     ELSE IF isUnsignedIntegerWithVector(lhs.ty)
       THEN Emit(B, "arith.ceildivui", lhs.ty, <<lhs, rhs>>,
                 MapLanes2(U, lhs.ty, lhs.val, rhs.val))
     ELSE IF isIntegerWithVector(lhs.ty)
       THEN Emit(B, "arith.ceildivsi", lhs.ty, <<lhs, rhs>>,
                 MapLanes2(S, lhs.ty, lhs.val, rhs.val))
     ELSE Abort(B)

\* The unsigned floorDiv is the plain unsigned division.
floorDiv(B, lhs, rhs) ==
  LET elemType == elementTypeWithVector(lhs.ty)
      U(a, b) == DivUIVal(a, b, BitsOf(elemType))
      S(a, b) == FloorDivSIVal(a, b, BitsOf(elemType))
  IN IF ~B.ok THEN B
     ELSE IF lhs.ty # rhs.ty THEN Abort(B)
     ELSE IF isUnsignedIntegerWithVector(lhs.ty)
       THEN Emit(B, "arith.divui", lhs.ty, <<lhs, rhs>>,
                 MapLanes2(U, lhs.ty, lhs.val, rhs.val))
     ELSE IF isIntegerWithVector(lhs.ty)
       THEN Emit(B, "arith.floordivsi", lhs.ty, <<lhs, rhs>>,
                 MapLanes2(S, lhs.ty, lhs.val, rhs.val))
     ELSE Abort(B)

\* fma(lhs, rhs, acc) = lhs * rhs + acc: one vector.fma for float vectors,
\* mul then add otherwise.
fma(B, lhs, rhs, acc) ==
  LET F(a, b, c) == AddFVal(MulFVal(a, b), c)
  IN IF ~B.ok THEN B
     ELSE IF ~(lhs.ty = rhs.ty /\ rhs.ty = acc.ty) THEN Abort(B)
     ELSE IF isFloatWithVector(lhs.ty) /\ ~isaFloatType(lhs.ty)
       THEN Emit(B, "vector.fma", lhs.ty, <<lhs, rhs, acc>>,
                 [i \in 1..lhs.ty.lanes |->
                    F(lhs.val[i], rhs.val[i], acc.val[i])])
     ELSE LET Bm == mul(B, lhs, rhs)
          IN IF ~Bm.ok THEN Bm ELSE add(Bm, Bm.ret, acc)

\* pow(base, exp): the operand types are not compared; the node of two
\* operands of different type has no defined result.
pow(B, base, exp) ==
  IF ~B.ok THEN B
  ELSE IF isFloatWithVector(base.ty)
    THEN Emit(B, "math.powf", base.ty, <<base, exp>>,
              IF base.ty = exp.ty
                THEN MapLanes2(PowFVal, base.ty, base.val, exp.val)
              ELSE Poison)
  ELSE Abort(B)

min(B, lhs, rhs) ==
  LET elemType == elementTypeWithVector(lhs.ty)
      U(a, b) == MinUIVal(a, b)
      S(a, b) == MinSIVal(a, b, BitsOf(elemType))
  IN IF ~B.ok THEN B
     ELSE IF lhs.ty # rhs.ty THEN Abort(B)
     ELSE IF isFloatWithVector(lhs.ty)
       THEN Emit(B, "arith.minf", lhs.ty, <<lhs, rhs>>,
                 MapLanes2(MinFVal, lhs.ty, lhs.val, rhs.val))
     ELSE IF isUnsignedIntegerWithVector(lhs.ty)
       THEN Emit(B, "arith.minui", lhs.ty, <<lhs, rhs>>,
                 MapLanes2(U, lhs.ty, lhs.val, rhs.val))
     ELSE IF isIntegerWithVector(lhs.ty)
       THEN Emit(B, "arith.minsi", lhs.ty, <<lhs, rhs>>,
                 MapLanes2(S, lhs.ty, lhs.val, rhs.val))
     ELSE Abort(B)

max(B, lhs, rhs) ==
  LET elemType == elementTypeWithVector(lhs.ty)
      U(a, b) == MaxUIVal(a, b)
      S(a, b) == MaxSIVal(a, b, BitsOf(elemType))
  IN IF ~B.ok THEN B
     ELSE IF lhs.ty # rhs.ty THEN Abort(B)
     ELSE IF isFloatWithVector(lhs.ty)
       THEN Emit(B, "arith.maxf", lhs.ty, <<lhs, rhs>>,
                 MapLanes2(MaxFVal, lhs.ty, lhs.val, rhs.val))
     ELSE IF isUnsignedIntegerWithVector(lhs.ty)
       THEN Emit(B, "arith.maxui", lhs.ty, <<lhs, rhs>>,
                 MapLanes2(U, lhs.ty, lhs.val, rhs.val))
     ELSE IF isIntegerWithVector(lhs.ty)
       THEN Emit(B, "arith.maxsi", lhs.ty, <<lhs, rhs>>,
                 MapLanes2(S, lhs.ty, lhs.val, rhs.val))
     ELSE Abort(B)

sgt(B, lhs, rhs) ==
  IF ~B.ok THEN B
  ELSE IF lhs.ty # rhs.ty THEN Abort(B)
  ELSE IF isIntegerWithVector(lhs.ty) THEN createArithCmpI(B, lhs, rhs, "sgt")
  ELSE IF isFloatWithVector(lhs.ty) THEN createArithCmpF(B, lhs, rhs, "ogt")
  ELSE Abort(B)

sge(B, lhs, rhs) ==
  IF ~B.ok THEN B
  ELSE IF lhs.ty # rhs.ty THEN Abort(B)
  ELSE IF isIntegerWithVector(lhs.ty) THEN createArithCmpI(B, lhs, rhs, "sge")
  ELSE IF isFloatWithVector(lhs.ty) THEN createArithCmpF(B, lhs, rhs, "oge")
  ELSE Abort(B)

slt(B, lhs, rhs) ==
  IF ~B.ok THEN B
  ELSE IF lhs.ty # rhs.ty THEN Abort(B)
  ELSE IF isIntegerWithVector(lhs.ty) THEN createArithCmpI(B, lhs, rhs, "slt")
  ELSE IF isFloatWithVector(lhs.ty) THEN createArithCmpF(B, lhs, rhs, "olt")
  ELSE Abort(B)

sle(B, lhs, rhs) ==
  IF ~B.ok THEN B
  ELSE IF lhs.ty # rhs.ty THEN Abort(B)
  ELSE IF isIntegerWithVector(lhs.ty) THEN createArithCmpI(B, lhs, rhs, "sle")
  ELSE IF isFloatWithVector(lhs.ty) THEN createArithCmpF(B, lhs, rhs, "ole")
  ELSE Abort(B)

ugt(B, lhs, rhs) ==
  IF ~B.ok THEN B
  ELSE IF lhs.ty # rhs.ty THEN Abort(B)
  ELSE IF isUnsignedIntegerWithVector(lhs.ty)
    THEN createArithCmpI(B, lhs, rhs, "ugt")
  ELSE Abort(B)

uge(B, lhs, rhs) ==
  IF ~B.ok THEN B
  ELSE IF lhs.ty # rhs.ty THEN Abort(B)
  ELSE IF isUnsignedIntegerWithVector(lhs.ty)
    THEN createArithCmpI(B, lhs, rhs, "uge")
  ELSE Abort(B)

ult(B, lhs, rhs) ==
  IF ~B.ok THEN B
  ELSE IF lhs.ty # rhs.ty THEN Abort(B)
  ELSE IF isUnsignedIntegerWithVector(lhs.ty)
    THEN createArithCmpI(B, lhs, rhs, "ult")
  ELSE Abort(B)

ule(B, lhs, rhs) ==
  IF ~B.ok THEN B
  ELSE IF lhs.ty # rhs.ty THEN Abort(B)
  ELSE IF isUnsignedIntegerWithVector(lhs.ty)
    THEN createArithCmpI(B, lhs, rhs, "ule")
  ELSE Abort(B)

\* gt that takes the signed comparison for every operand kind.
gtSigned(B, lhs, rhs) == sgt(B, lhs, rhs)

gt(B, lhs, rhs) ==
  IF isUnsignedIntegerWithVector(lhs.ty) THEN ugt(B, lhs, rhs)
  ELSE sgt(B, lhs, rhs)

ge(B, lhs, rhs) ==
  IF isUnsignedIntegerWithVector(lhs.ty) THEN uge(B, lhs, rhs)
  ELSE sge(B, lhs, rhs)

lt(B, lhs, rhs) ==
  IF isUnsignedIntegerWithVector(lhs.ty) THEN ult(B, lhs, rhs)
  ELSE slt(B, lhs, rhs)

le(B, lhs, rhs) ==
  IF isUnsignedIntegerWithVector(lhs.ty) THEN ule(B, lhs, rhs)
  ELSE sle(B, lhs, rhs)

eq(B, lhs, rhs) ==
  IF ~B.ok THEN B
  ELSE IF lhs.ty # rhs.ty THEN Abort(B)
  ELSE IF isIntegerWithVector(lhs.ty) THEN createArithCmpI(B, lhs, rhs, "eq")
  ELSE IF isFloatWithVector(lhs.ty) THEN createArithCmpF(B, lhs, rhs, "oeq")
  ELSE Abort(B)

\* select(cmp, lhs, rhs): a scalar condition chooses whole values, a
\* vector condition lane by lane.
select(B, cmp, lhs, rhs) ==
  IF ~B.ok THEN B
  ELSE IF lhs.ty # rhs.ty THEN Abort(B)
  ELSE Emit(B, "arith.select", lhs.ty, <<cmp, lhs, rhs>>,
            IF cmp.ty.lanes = 0 THEN SelectVal(cmp.val, lhs.val, rhs.val)
            ELSE IF cmp.ty.lanes # lhs.ty.lanes THEN Poison
            ELSE [i \in 1..lhs.ty.lanes |->
                    SelectVal(cmp.val[i], lhs.val[i], rhs.val[i])])

(***************************************************************************)
(* MathBuilder: the infinities.  An attribute is [ok, ty, val]; ok is      *)
(* FALSE when the switch on the type ends in llvm_unreachable.  The        *)
(* integer limit is first an int64_t (a 64-bit pattern), then              *)
(* APInt(width, value) keeps its low width bits.                           *)
(***************************************************************************)
NegInfinity == {-300001}
PosInfinity == {-300000}

NoAttr == [ok |-> FALSE, ty |-> NoType, val |-> {}]

\* (int64_t) std::numeric_limits<intN_t>::min() / max(), N = width.
Int64OfSignedMin(width) == (width - 1)..63
Int64OfSignedMax(width) == 0..(width - 2)
\* (int64_t) std::numeric_limits<uintN_t>::min() / max().
Int64OfUnsignedMin(width) == {}
Int64OfUnsignedMax(width) == 0..(width - 1)

APInt(width, value) == {i \in value : i < width}

negativeInfAttr(type) ==
  IF isaFloatType(type) /\ type.width = 32
    THEN [ok |-> TRUE, ty |-> type, val |-> NegInfinity]
  ELSE IF isaFloatType(type) /\ type.width = 64
    THEN [ok |-> TRUE, ty |-> type, val |-> NegInfinity]
  ELSE IF isaIntegerType(type)
    THEN LET width == type.width
             isSignless == type.sign = "signless"
             isSigned == type.sign = "signed"
         IN IF width \in {8, 16, 32, 64}
              THEN [ok |-> TRUE, ty |-> type,
                    val |-> APInt(width,
                                  IF isSignless \/ isSigned
                                    THEN Int64OfSignedMin(width)
                                  ELSE Int64OfUnsignedMin(width))]
            ELSE NoAttr
  ELSE NoAttr

positiveInfAttr(type) ==
  IF isaFloatType(type) /\ type.width = 32
    THEN [ok |-> TRUE, ty |-> type, val |-> PosInfinity]
  ELSE IF isaFloatType(type) /\ type.width = 64
    THEN [ok |-> TRUE, ty |-> type, val |-> PosInfinity]
  ELSE IF isaIntegerType(type)
    THEN LET width == type.width
             isSignless == type.sign = "signless"
             isSigned == type.sign = "signed"
         IN IF width \in {8, 16, 32, 64}
              THEN [ok |-> TRUE, ty |-> type,
                    val |-> APInt(width,
                                  IF isSignless \/ isSigned
                                    THEN Int64OfSignedMax(width)
                                  ELSE Int64OfUnsignedMax(width))]
            ELSE NoAttr
  ELSE NoAttr

negativeInf(B, type) ==
  LET attr == negativeInfAttr(type)
  IN IF ~B.ok THEN B
     ELSE IF ~attr.ok THEN Abort(B)
     ELSE Emit(B, "arith.constant", attr.ty, <<>>, attr.val)

positiveInf(B, type) ==
  LET attr == positiveInfAttr(type)
  IN IF ~B.ok THEN B
     ELSE IF ~attr.ok THEN Abort(B)
     ELSE Emit(B, "arith.constant", attr.ty, <<>>, attr.val)

(***************************************************************************)
(* Index expressions: a literal, or a run-time value.  n is the literal,   *)
(* or the number the expression evaluates to in this run; h is the value   *)
(* handle of a symbol.  An expression is literal iff every sub-term is.    *)
(***************************************************************************)
kDynamic == 0 - 1

LiteralIndexExpr(n) == [lit |-> TRUE, n |-> n, h |-> NoValue]

\* SymbolIndexExpr of a value, and of an index expression.
SymbolOfValue(h) == [lit |-> FALSE, n |-> ToNat(h.val), h |-> h]
SymbolIndexExpr(e) == e

IEMul(a, b) == [lit |-> a.lit /\ b.lit, n |-> a.n * b.n, h |-> NoValue]
IEAdd(a, b) == [lit |-> a.lit /\ b.lit, n |-> a.n + b.n, h |-> NoValue]
IECeilDiv(a, b) ==
  [lit |-> a.lit /\ b.lit, n |-> (a.n + b.n - 1) \div b.n, h |-> NoValue]

\* IndexExpr::getShape: the literal, or the dynamic marker.
IEGetShape(e) == IF e.lit THEN e.n ELSE kDynamic

\* IndexExpr::getValue: a constant for a literal, the symbol's own value,
\* or one node that computes the expression.
IEGetValue(B, e) ==
  IF e.lit THEN Emit(B, "arith.constant", IndexType, <<>>,
                     FromNat(e.n, IndexIntWidth))
  ELSE IF e.h.id # 0 THEN Return(B, e.h)
  ELSE Emit(B, "index_expr.value", IndexType, <<>>,
            FromNat(e.n, IndexIntWidth))

(***************************************************************************)
(* MemRefBuilder.  A buffer type is [kind = "memref", elem, shape,          *)
(* identity]; the content of a buffer value is its run-time shape and the  *)
(* number of elements its allocation holds.                                *)
(***************************************************************************)
MemRefType(shape, elem) ==
  [kind |-> "memref", elem |-> elem, shape |-> shape, identity |-> TRUE]

hasNonIdentityLayout(type) == ~type.identity

RECURSIVE SeqProduct(_)
SeqProduct(q) == IF q = <<>> THEN 1 ELSE Head(q) * SeqProduct(Tail(q))

\* Run-time extents of a buffer of this type: dynamic extents are taken
\* from the dynamic symbols, in order.
RECURSIVE RuntimeShape(_, _)
RuntimeShape(shape, dynVals) ==
  IF shape = <<>> THEN <<>>
  ELSE IF Head(shape) = kDynamic
    THEN (IF dynVals = <<>> THEN <<kDynamic>> \o RuntimeShape(Tail(shape), <<>>)
          ELSE <<Head(dynVals)>> \o RuntimeShape(Tail(shape), Tail(dynVals)))
  ELSE <<Head(shape)>> \o RuntimeShape(Tail(shape), dynVals)

SymbolValues(dynSymbols) ==
  [i \in 1..Len(dynSymbols) |-> ToNat(dynSymbols[i].val)]

BufferVal(type, dynSymbols) ==
  LET shape == RuntimeShape(type.shape, SymbolValues(dynSymbols))
  IN [shape |-> shape, elems |-> SeqProduct(shape)]

gDefaultAllocAlign == 16

\* An alignment attribute that takes the requested alignment as it is.
computeAlignmentAsRequested(alignment) == alignment

computeAlignment(alignment) ==
  IF alignment > gDefaultAllocAlign THEN alignment ELSE gDefaultAllocAlign

\* MemRefBuilder::defaultAlign, the alignment asked for when none is given.
defaultAlign == 0 - 1

\* alloc(type, dynSymbols): no alignment attribute.
alloc(B, type, dynSymbols) ==
  EmitAttr(B, "memref.alloc", type, dynSymbols, BufferVal(type, dynSymbols),
           <<>>)

\* alignedAlloc(type, dynSymbols, alignment).
alignedAlloc(B, type, dynSymbols, alignment) ==
  IF Len(type.shape) = 0 THEN alloc(B, type, dynSymbols)
  ELSE EmitAttr(B, "memref.alloc", type, dynSymbols,
                BufferVal(type, dynSymbols), <<computeAlignment(alignment)>>)

\* alloca(type): no alignment attribute.
alloca(B, type) ==
  EmitAttr(B, "memref.alloca", type, <<>>, BufferVal(type, <<>>), <<>>)

\* alignedAlloca(type, alignment).
alignedAlloca(B, type, alignment) ==
  IF Len(type.shape) = 0
    THEN EmitAttr(B, "memref.alloca", type, <<>>, BufferVal(type, <<>>), <<>>)
  ELSE EmitAttr(B, "memref.alloca", type, <<>>, BufferVal(type, <<>>),
                <<computeAlignment(alignment)>>)

constantIndex(B, val) ==
  Emit(B, "arith.constant", IndexType, <<>>, FromNat(val, IndexIntWidth))

\* view(input, byteOffset, outputType, outputDynSymbols): the view's
\* content keeps the element count of the buffer under it.
view(B, input, byteOffset, outputType, outputDynSymbols) ==
  LET B1 == constantIndex(B, byteOffset)
  IN Emit(B1, "memref.view", outputType,
          <<input, B1.ret>> \o outputDynSymbols,
          [shape |-> RuntimeShape(outputType.shape,
                                  SymbolValues(outputDynSymbols)),
           elems |-> input.val.elems])

\* The loop of getStaticAndDynamicMemSize from dimension i on; r holds
\* staticSize, dynSize, iDim and whether no assertion failed.
RECURSIVE MemSizeLoop(_, _, _, _, _)
MemSizeLoop(shape, dynSymbols, staticShape, i, r) ==
  IF i > Len(shape) \/ ~r.ok THEN r
  ELSE IF shape[i] = kDynamic
    THEN (IF staticShape \/ ~(r.iDim < Len(dynSymbols))
            THEN [r EXCEPT !.ok = FALSE]
          ELSE MemSizeLoop(shape, dynSymbols, staticShape, i + 1,
                 [r EXCEPT !.dynSize =
                              IEMul(r.dynSize,
                                    SymbolOfValue(dynSymbols[r.iDim + 1])),
                           !.iDim = r.iDim + 1]))
  ELSE MemSizeLoop(shape, dynSymbols, staticShape, i + 1,
         [r EXCEPT !.staticSize = r.staticSize * shape[i]])

\* Returns [ok, staticSize, dynSize, iDim, staticShape].
getStaticAndDynamicMemSize(type, dynSymbols) ==
  LET staticShape == Len(dynSymbols) = 0
      r0 == [ok |-> type.elem.lanes = 0, staticSize |-> 1,
             dynSize |-> LiteralIndexExpr(1), iDim |-> 0,
             staticShape |-> staticShape]
  IN MemSizeLoop(type.shape, dynSymbols, staticShape, 1, r0)

\* A machine vector length that takes every element type as scalar.
getMachineVectorLengthScalar(vmsLength) == 1

\* VectorBuilder::getMachineVectorLength: vmsLength is what the machine
\* support reports for the element type (0 when it has no vectors of it).
getMachineVectorLength(vmsLength) == IF vmsLength > 1 THEN vmsLength ELSE 1

\* The total size in bytes without the padding elements.
totByteSizeUnpadded(staticSize, dynSize, paddingSize, bitWidth) ==
  IF bitWidth % 8 = 0
    THEN IEMul(LiteralIndexExpr(staticSize * (bitWidth \div 8)), dynSize)
  ELSE IECeilDiv(IEMul(LiteralIndexExpr(staticSize * bitWidth), dynSize),
                 LiteralIndexExpr(8))

\* The padded total size in bytes, an index expression.
totPaddedByteSize(staticSize, dynSize, paddingSize, bitWidth) ==
  IF bitWidth % 8 = 0
    THEN LET byteWidth == bitWidth \div 8
             totByteSize == IEMul(LiteralIndexExpr(staticSize * byteWidth),
                                  dynSize)
         IN IEAdd(totByteSize, LiteralIndexExpr(paddingSize * byteWidth))
  ELSE LET totBitSize == IEMul(LiteralIndexExpr(staticSize * bitWidth),
                               dynSize)
           totPaddedBitSize ==
             IEAdd(totBitSize, LiteralIndexExpr(paddingSize * bitWidth))
       IN IECeilDiv(totPaddedBitSize, LiteralIndexExpr(8))

\* The padded allocation and the view over it.
allocPadded(B, type, dynSymbols, tot, alignment) ==
  LET i8 == IntegerType(8, "signless")
      Bv == IEGetValue(B, tot)
      Ba == IF tot.lit
              THEN alignedAlloc(B, MemRefType(<<tot.n>>, i8), <<>>, alignment)
            ELSE alignedAlloc(Bv, MemRefType(<<kDynamic>>, i8), <<Bv.ret>>,
                              alignment)
  IN view(Ba, Ba.ret, 0, type, dynSymbols)

\* alignedAllocWithSimdPadding that pads a dynamic layout by the remainder
\* of its static size, as it does a static one.
alignedAllocWithExactPadding(B, type, dynSymbols, simdUnroll, alignment, vmsLength) ==
  LET elementType == type.elem
      size == getStaticAndDynamicMemSize(type, dynSymbols)
      VL == getMachineVectorLength(vmsLength) * simdUnroll
      paddingSize == VL - (size.staticSize % VL)
      tot == totPaddedByteSize(size.staticSize, size.dynSize, paddingSize,
                               elementType.width)
  IN IF ~B.ok THEN B
     ELSE IF hasNonIdentityLayout(type) THEN Abort(B)
     ELSE IF elementType.lanes # 0 THEN Abort(B)
     ELSE IF ~(simdUnroll >= 1) THEN Abort(B)
     ELSE IF ~size.ok THEN Abort(B)
     ELSE IF size.staticSize % VL = 0
       THEN alignedAlloc(B, type, dynSymbols, alignment)
     ELSE IF ~(elementType.kind \in {"int", "float"}) THEN Abort(B)
     ELSE IF size.staticShape /\ ~tot.lit THEN Abort(B)
     ELSE allocPadded(B, type, dynSymbols, tot, alignment)

alignedAllocWithSimdPadding(B, type, dynSymbols, simdUnroll, alignment, vmsLength) ==
  LET elementType == type.elem
      size == getStaticAndDynamicMemSize(type, dynSymbols)
      VL == getMachineVectorLength(vmsLength) * simdUnroll
      paddingSize == IF size.staticShape THEN VL - (size.staticSize % VL)
                     ELSE VL
      tot == totPaddedByteSize(size.staticSize, size.dynSize, paddingSize,
                               elementType.width)
  IN IF ~B.ok THEN B
     ELSE IF hasNonIdentityLayout(type) THEN Abort(B)
     ELSE IF elementType.lanes # 0 THEN Abort(B)
     ELSE IF ~(simdUnroll >= 1) THEN Abort(B)
     ELSE IF ~size.ok THEN Abort(B)
     ELSE IF size.staticSize % VL = 0
       THEN alignedAlloc(B, type, dynSymbols, alignment)
     ELSE IF ~(elementType.kind \in {"int", "float"}) THEN Abort(B)
     ELSE IF size.staticShape /\ ~tot.lit THEN Abort(B)
     ELSE allocPadded(B, type, dynSymbols, tot, alignment)

(***************************************************************************)
(* Reshapes.  The shape a memref.reshape gives its result at run time is   *)
(* read from its shape operand, a buffer filled by affine.store nodes.     *)
(***************************************************************************)
\* Content of a slot no store has written.
Undef == 0 - 2

Maximum(S) == CHOOSE x \in S : \A y \in S : y <= x

\* affine.store(val, memref, {index}).
affineStore(B, val, memref, index) ==
  Emit(B, "affine.store", NoType, <<val, memref, index>>, val.val)

\* The stores of nodes into slot d of buffer memId, and the slot's content.
StoresTo(nodes, memId, d) ==
  {k \in 1..Len(nodes) :
     /\ nodes[k].op = "affine.store"
     /\ nodes[k].args[2] = memId
     /\ nodes[k].args[3] > 0
     /\ ToNat(nodes[nodes[k].args[3]].val) = d}

LoadShape(nodes, memId, rank) ==
  [d \in 1..rank |->
     IF StoresTo(nodes, memId, d - 1) = {} THEN Undef
     ELSE ToNat(nodes[Maximum(StoresTo(nodes, memId, d - 1))].val)]

reshape(B, destType, valToReshape, destShapeStoredInMem) ==
  IF ~B.ok THEN B
  ELSE Emit(B, "memref.reshape", destType,
            <<valToReshape, destShapeStoredInMem>>,
            [shape |-> LoadShape(B.ops, destShapeStoredInMem.id,
                                 Len(destType.shape)),
             elems |-> valToReshape.val.elems])

\* The product of all of dims, whatever the first flattened dimension.
RECURSIVE FlattenedElementsAll(_, _, _)
FlattenedElementsAll(dims, d, e) ==
  IF dims = <<>> THEN e
  ELSE FlattenedElementsAll(Tail(dims), d,
                            IEMul(e, SymbolIndexExpr(Head(dims))))

\* The loop that builds numOfFlattenedElements: e times dims[d..].
RECURSIVE FlattenedElements(_, _, _)
FlattenedElements(dims, d, e) ==
  IF d > Len(dims) THEN e
  ELSE FlattenedElements(dims, d + 1, IEMul(e, SymbolIndexExpr(dims[d])))

\* The store loop of reshapeToFlat from slot d on (d counts from 0).
RECURSIVE StoreFlatShape(_, _, _, _, _, _)
StoreFlatShape(B, dims, numOfFlattenedElements, outputShapeInMem, outputRank, d) ==
  IF d >= outputRank \/ ~B.ok THEN B
  ELSE LET B1 == constantIndex(B, d)
           shapeIE == IF d = outputRank - 1 THEN numOfFlattenedElements
                      ELSE dims[d + 1]
           B2 == IEGetValue(B1, shapeIE)
           B3 == affineStore(B2, B2.ret, outputShapeInMem, B1.ret)
       IN StoreFlatShape(B3, dims, numOfFlattenedElements, outputShapeInMem,
                         outputRank, d + 1)

FlatShape(dims, numOfFlattenedElements, outputRank) ==
  [d \in 1..outputRank |->
     IEGetShape(IF d = outputRank THEN numOfFlattenedElements ELSE dims[d])]

WithSize(B, flattenedSize) ==
  [ops |-> B.ops, ret |-> B.ret, ok |-> B.ok,
   flattenedSize |-> flattenedSize]

\* Returns the builder state with the extra output flattenedSize.
reshapeToFlat(B, valToReshape, dims, dimsToFlattenArg) ==
  LET inputType == valToReshape.ty
      inputRank == Len(inputType.shape)
      elementType == inputType.elem
      dimsToFlatten == IF dimsToFlattenArg = 0 - 1 THEN inputRank
                       ELSE dimsToFlattenArg
      numOfFlattenedElements ==
        FlattenedElements(dims, inputRank - dimsToFlatten + 1,
                          LiteralIndexExpr(1))
      B1 == IEGetValue(B, numOfFlattenedElements)
      flattenedSize == B1.ret
      outputRank == (inputRank - dimsToFlatten) + 1
      B2 == alignedAlloc(B1, MemRefType(<<outputRank>>, IndexType), <<>>,
                         defaultAlign)
      B3 == StoreFlatShape(B2, dims, numOfFlattenedElements, B2.ret,
                           outputRank, 0)
      outputType ==
        MemRefType(FlatShape(dims, numOfFlattenedElements, outputRank),
                   elementType)
  IN IF ~B.ok THEN WithSize(B, NoValue)
     ELSE IF inputType.kind # "memref" THEN WithSize(Abort(B), NoValue)
     ELSE IF inputRank # Len(dims) THEN WithSize(Abort(B), NoValue)
     ELSE IF hasNonIdentityLayout(inputType) THEN WithSize(Abort(B), NoValue)
     ELSE IF ~(dimsToFlatten > 0 /\ dimsToFlatten <= inputRank)
       THEN WithSize(Abort(B), NoValue)
     ELSE IF dimsToFlatten = 1
       THEN WithSize(Return(B1, valToReshape), flattenedSize)
     ELSE WithSize(reshape(B3, outputType, valToReshape, B2.ret),
                   flattenedSize)

\* The store loop of reshapeFromFlat writing the dims innermost first.
RECURSIVE StoreShapeNDReversed(_, _, _, _, _)
StoreShapeNDReversed(B, dims, shapeND, rank, i) ==
  IF i >= rank \/ ~B.ok THEN B
  ELSE LET B1 == constantIndex(B, i)
           B2 == IEGetValue(B1, dims[rank - i])
           B3 == affineStore(B2, B2.ret, shapeND, B1.ret)
       IN StoreShapeNDReversed(B3, dims, shapeND, rank, i + 1)

\* The store loop of reshapeFromFlat from slot i on.
RECURSIVE StoreShapeND(_, _, _, _, _)
StoreShapeND(B, dims, shapeND, rank, i) ==
  IF i >= rank \/ ~B.ok THEN B
  ELSE LET B1 == constantIndex(B, i)
           B2 == IEGetValue(B1, dims[i + 1])
           B3 == affineStore(B2, B2.ret, shapeND, B1.ret)
       IN StoreShapeND(B3, dims, shapeND, rank, i + 1)

reshapeFromFlat(B, valToReshape, dims, outputType) ==
  LET rank == Len(outputType.shape)
      B1 == alignedAlloc(B, MemRefType(<<rank>>, IndexType), <<>>,
                         defaultAlign)
      B2 == StoreShapeND(B1, dims, B1.ret, rank, 0)
  IN IF ~B.ok THEN B
     ELSE IF hasNonIdentityLayout(outputType) THEN Abort(B)
     ELSE reshape(B2, outputType, valToReshape, B1.ret)

(***************************************************************************)
(* MemRefBuilder: casts and views.                                         *)
(***************************************************************************)
\* IndexExpr::getOpOrFoldResults from entry i on: a literal becomes a
\* static entry, any other expression a dynamic entry with its value as an
\* operand. r holds the builder, the static entries and the operands.
RECURSIVE IEGetOpOrFoldResults(_, _, _)
IEGetOpOrFoldResults(r, list, i) ==
  IF i > Len(list) \/ ~r.B.ok THEN r
  ELSE IF list[i].lit
    THEN IEGetOpOrFoldResults([r EXCEPT !.static = Append(@, list[i].n)],
                              list, i + 1)
  ELSE LET Bv == IEGetValue(r.B, list[i])
       IN IEGetOpOrFoldResults([B |-> Bv,
                                static |-> Append(r.static, kDynamic),
                                values |-> Append(r.values, Bv.ret)],
                               list, i + 1)

\* The stride loop of reinterpretCast run from the first dimension to the
\* last (column-major strides).
RECURSIVE StrideLoopColumnMajor(_, _, _, _)
StrideLoopColumnMajor(outputDims, i, strideIE, stridesIE) ==
  LET j == Len(outputDims) + 1 - i
  IN IF i < 1 THEN stridesIE
     ELSE StrideLoopColumnMajor(outputDims, i - 1,
            IF i > 1 THEN IEMul(strideIE, outputDims[j]) ELSE strideIE,
            [stridesIE EXCEPT ![j] = strideIE])

\* The loop of reinterpretCast from dimension i (counted from 1) down:
\* stridesIE[i] = strideIE, then strideIE = strideIE * sizesIE[i] unless i
\* is the first dimension.
RECURSIVE StrideLoop(_, _, _, _)
StrideLoop(outputDims, i, strideIE, stridesIE) ==
  IF i < 1 THEN stridesIE
  ELSE StrideLoop(outputDims, i - 1,
         IF i > 1 THEN IEMul(strideIE, outputDims[i]) ELSE strideIE,
         [stridesIE EXCEPT ![i] = strideIE])

\* reinterpretCast(input, outputDims): attr holds the offset, the static
\* sizes and the static strides; the operands are the input, then the
\* dynamic sizes, then the dynamic strides.
reinterpretCast(B, input, outputDims) ==
  LET rank == Len(outputDims)
      sizesIE == outputDims
      stridesIE == StrideLoop(outputDims, rank, LiteralIndexExpr(1),
                              [i \in 1..rank |-> LiteralIndexExpr(0)])
      outputShape == [i \in 1..rank |-> IEGetShape(outputDims[i])]
      sizes == IEGetOpOrFoldResults([B |-> B, static |-> <<>>,
                                     values |-> <<>>], sizesIE, 1)
      strides == IEGetOpOrFoldResults([B |-> sizes.B, static |-> <<>>,
                                       values |-> <<>>], stridesIE, 1)
      outputMemRefType == MemRefType(outputShape, input.ty.elem)
  IN IF ~B.ok THEN B
     ELSE IF input.ty.kind # "memref" THEN Abort(B)
     ELSE EmitAttr(strides.B, "memref.reinterpret_cast", outputMemRefType,
                   <<input>> \o sizes.values \o strides.values,
                   [shape |-> [i \in 1..rank |-> sizesIE[i].n],
                    strides |-> [i \in 1..rank |-> stridesIE[i].n],
                    offset |-> 0, elems |-> input.val.elems],
                   <<0, sizes.static, strides.static>>)

\* The inner loop of collapseShape that takes a dynamic extent as a
\* factor like any other.
RECURSIVE GroupLoopProduct(_, _, _, _)
GroupLoopProduct(inputShape, group, i, currShape) ==
  IF i > Len(group) THEN [ok |-> TRUE, currShape |-> currShape]
  ELSE IF ~(group[i] >= 0 /\ group[i] < Len(inputShape))
    THEN [ok |-> FALSE, currShape |-> currShape]
  ELSE GroupLoopProduct(inputShape, group, i + 1,
                        currShape * inputShape[group[i] + 1])

\* The inner loop of collapseShape over one group from its entry i on:
\* indices count from 0; a dynamic extent ends the loop.
RECURSIVE GroupLoop(_, _, _, _)
GroupLoop(inputShape, group, i, currShape) ==
  IF i > Len(group) THEN [ok |-> TRUE, currShape |-> currShape]
  ELSE IF ~(group[i] >= 0 /\ group[i] < Len(inputShape))
    THEN [ok |-> FALSE, currShape |-> currShape]
  ELSE IF inputShape[group[i] + 1] = kDynamic
    THEN [ok |-> TRUE, currShape |-> kDynamic]
  ELSE GroupLoop(inputShape, group, i + 1,
                 currShape * inputShape[group[i] + 1])

\* The outer loop of collapseShape from group r on.
RECURSIVE CollapseLoop(_, _, _, _)
CollapseLoop(inputShape, reassociation, r, out) ==
  IF r > Len(reassociation) \/ ~out.ok THEN out
  ELSE IF ~(Len(reassociation[r]) > 0) THEN [out EXCEPT !.ok = FALSE]
  ELSE LET g == GroupLoop(inputShape, reassociation[r], 1, 1)
       IN CollapseLoop(inputShape, reassociation, r + 1,
            [ok |-> g.ok,
             outputShape |-> Append(out.outputShape, g.currShape)])

\* The run-time extent of a group: the product of the run-time extents of
\* its dimensions.
RECURSIVE GroupExtent(_, _)
GroupExtent(shape, group) ==
  IF group = <<>> THEN 1
  ELSE (IF Head(group) >= 0 /\ Head(group) < Len(shape)
          THEN shape[Head(group) + 1] ELSE 1)
         * GroupExtent(shape, Tail(group))

\* collapseShape(input, reassociation).
collapseShape(B, input, reassociation) ==
  LET inputType == input.ty
      inputShape == inputType.shape
      out == CollapseLoop(inputShape, reassociation, 1,
                          [ok |-> TRUE, outputShape |-> <<>>])
      outputType == MemRefType(out.outputShape, inputType.elem)
  IN IF ~B.ok THEN B
     ELSE IF inputType.kind # "memref" THEN Abort(B)
     ELSE IF hasNonIdentityLayout(inputType) THEN Abort(B)
     ELSE IF ~out.ok THEN Abort(B)
     ELSE EmitAttr(B, "memref.collapse_shape", outputType, <<input>>,
                   [shape |-> [r \in 1..Len(reassociation) |->
                                 GroupExtent(input.val.shape,
                                             reassociation[r])],
                    elems |-> input.val.elems],
                   reassociation)

(***************************************************************************)
(* VectorBuilder: shuffles and the reduction of N vectors.                 *)
(***************************************************************************)
\* vector.shuffle: lane i of the result is lane mask[i] of lhs followed by
\* rhs (lanes counted from 0).
shuffle(B, lhs, rhs, mask) ==
  LET both == lhs.val \o rhs.val
  IN EmitAttr(B, "vector.shuffle", getTypeWithVector(Len(mask), elementTypeWithVector(lhs.ty)),
              <<lhs, rhs>>, [i \in 1..Len(mask) |-> both[mask[i] + 1]], mask)

\* (num & (num - 1)) == 0 on unsigned numbers.
isPowerOf2(num) ==
  IF num = 0 THEN TRUE
  ELSE FromNat(num, SmallBits) \cap FromNat(num - 1, SmallBits) = {}

\* getLengthOf1DVector: [ok, len]; the asserts fail on a value that is not
\* a vector.
getLengthOf1DVector(vec) == [ok |-> vec.ty.lanes # 0, len |-> vec.ty.lanes]

\* for (e = 0; e < step; ++e) mask[i++] = from + e;
RECURSIVE MaskRun(_, _, _, _, _)
MaskRun(mask, i, from, e, step) ==
  IF e >= step THEN mask
  ELSE MaskRun([mask EXCEPT ![i + 1] = from + e], i + 1, from, e + 1, step)

\* The loop over the pairs of step-sized runs, from pair p on; half is
\* firstHalf or secondHalf.
RECURSIVE MaskPairs(_, _, _, _, _, _)
MaskPairs(mask, p, pairsOfLhsRhs, step, half, VL) ==
  IF p >= pairsOfLhsRhs THEN mask
  ELSE LET i == 2 * step * p
           m1 == MaskRun(mask, i, half + p * step, 0, step)
           m2 == MaskRun(m1, i + step, half + VL + p * step, 0, step)
       IN MaskPairs(m2, p + 1, pairsOfLhsRhs, step, half, VL)

\* A mask that takes the half of lhs in one run, then the half of rhs,
\* whatever the step.
MergeMaskOneRun(VL, step, half) ==
  [k \in 1..VL |-> IF k <= VL \div 2 THEN half + k - 1
                   ELSE half + VL + (k - 1 - VL \div 2)]

MergeMask(VL, step, half) ==
  MaskPairs([k \in 1..VL |-> 0], 0, VL \div (2 * step), step, half, VL)

mergeHigh(B, lhs, rhs, step) ==
  LET VL == getLengthOf1DVector(lhs)
      firstHalf == 0
  IN IF ~B.ok THEN B
     ELSE IF ~VL.ok THEN Abort(B)
     ELSE IF ~(getLengthOf1DVector(rhs).ok
               /\ getLengthOf1DVector(rhs).len = VL.len) THEN Abort(B)
     ELSE IF ~isPowerOf2(VL.len) THEN Abort(B)
     ELSE shuffle(B, lhs, rhs, MergeMask(VL.len, step, firstHalf))

\* mergeLow that reads the lower half, as mergeHigh does.
mergeLowFirstHalf(B, lhs, rhs, step) ==
  LET VL == getLengthOf1DVector(lhs)
  IN IF ~B.ok THEN B
     ELSE IF ~VL.ok THEN Abort(B)
     ELSE IF ~(getLengthOf1DVector(rhs).ok
               /\ getLengthOf1DVector(rhs).len = VL.len) THEN Abort(B)
     ELSE IF ~isPowerOf2(VL.len) THEN Abort(B)
     ELSE shuffle(B, lhs, rhs, MergeMask(VL.len, step, 0))

mergeLow(B, lhs, rhs, step) ==
  LET VL == getLengthOf1DVector(lhs)
      secondHalf == VL.len \div 2
  IN IF ~B.ok THEN B
     ELSE IF ~VL.ok THEN Abort(B)
     ELSE IF ~(getLengthOf1DVector(rhs).ok
               /\ getLengthOf1DVector(rhs).len = VL.len) THEN Abort(B)
     ELSE IF ~isPowerOf2(VL.len) THEN Abort(B)
     ELSE shuffle(B, lhs, rhs, MergeMask(VL.len, step, secondHalf))

\* The pair loop that stores the sum of pair p where the pair's first
\* vector was, at r + 2 * p.
RECURSIVE ReducePairsOverFirst(_, _, _, _, _)
ReducePairsOverFirst(S, r, step, p, numPairs) ==
  IF p >= numPairs \/ ~S.B.ok THEN S
  ELSE LET Bh == mergeHigh(S.B, S.tmp[r + 2 * p + 1], S.tmp[r + 2 * p + 2],
                           step)
           Bl == mergeLow(Bh, S.tmp[r + 2 * p + 1], S.tmp[r + 2 * p + 2],
                          step)
           Br == add(Bl, Bh.ret, Bl.ret)
       IN ReducePairsOverFirst(
            [B |-> Br, tmp |-> [S.tmp EXCEPT ![r + 2 * p + 1] = Br.ret]],
            r, step, p + 1, numPairs)

\* The reduction loops work on S = [B, tmp]: the builder state and tmpArray.
\* for (p = 0; p < numPairs; ++p) ...
RECURSIVE ReducePairs(_, _, _, _, _)
ReducePairs(S, r, step, p, numPairs) ==
  IF p >= numPairs \/ ~S.B.ok THEN S
  ELSE LET Bh == mergeHigh(S.B, S.tmp[r + 2 * p + 1], S.tmp[r + 2 * p + 2],
                           step)
           Bl == mergeLow(Bh, S.tmp[r + 2 * p + 1], S.tmp[r + 2 * p + 2],
                          step)
           Br == add(Bl, Bh.ret, Bl.ret)
       IN ReducePairs([B |-> Br, tmp |-> [S.tmp EXCEPT ![r + p + 1] = Br.ret]],
                      r, step, p + 1, numPairs)

\* for (step = 1; step < machineVL; step = step * 2) ...
RECURSIVE ReduceSteps(_, _, _, _, _)
ReduceSteps(S, r, step, numPairs, machineVL) ==
  IF ~(step < machineVL) \/ ~S.B.ok THEN S
  ELSE ReduceSteps(ReducePairs(S, r, step, 0, numPairs), r, step * 2,
                   numPairs \div 2, machineVL)

\* for (r = 0; r < N; r += machineVL) ...: S also carries the output array.
\* The group loop that puts each group's result in front of the output.
RECURSIVE ReduceGroupsNewestFirst(_, _, _, _)
ReduceGroupsNewestFirst(S, r, N, machineVL) ==
  IF ~(r < N) \/ ~S.B.ok THEN S
  ELSE LET S1 == ReduceSteps([B |-> S.B, tmp |-> S.tmp], r, 1,
                             machineVL \div 2, machineVL)
       IN ReduceGroupsNewestFirst(
            [B |-> S1.B, tmp |-> S1.tmp,
             out |-> IF S1.B.ok THEN <<S1.tmp[r + 1]>> \o S.out ELSE S.out],
            r + machineVL, N, machineVL)

RECURSIVE ReduceGroups(_, _, _, _)
ReduceGroups(S, r, N, machineVL) ==
  IF ~(r < N) \/ ~S.B.ok THEN S
  ELSE LET S1 == ReduceSteps([B |-> S.B, tmp |-> S.tmp], r, 1,
                             machineVL \div 2, machineVL)
       IN ReduceGroups([B |-> S1.B, tmp |-> S1.tmp,
                        out |-> IF S1.B.ok THEN Append(S.out, S1.tmp[r + 1])
                                ELSE S.out],
                       r + machineVL, N, machineVL)

\* Returns [B, tmp, out]: out is outputVecArray, which held prevOutput.
multiReduction(B, inputVecArray, prevOutput, vmsLength) ==
  LET N == Len(inputVecArray)
      VL == getLengthOf1DVector(inputVecArray[1])
      machineVL == getMachineVectorLength(vmsLength)
      Failed == [B |-> Abort(B), tmp |-> <<>>, out |-> prevOutput]
  IN IF ~B.ok THEN [B |-> B, tmp |-> <<>>, out |-> prevOutput]
     ELSE IF ~(N > 0) THEN Failed
     ELSE IF ~VL.ok THEN Failed
     ELSE IF VL.len # machineVL THEN Failed
     ELSE IF N % machineVL # 0 THEN Failed
     ELSE IF \E i \in 1..N : ~(getLengthOf1DVector(inputVecArray[i]).ok
                               /\ getLengthOf1DVector(inputVecArray[i]).len
                                    = VL.len)
       THEN Failed
     ELSE ReduceGroups([B |-> B, tmp |-> inputVecArray, out |-> <<>>], 0, N,
                       machineVL)

(***************************************************************************)
(* ONNXReshapeOp::inferShapes.  A tensor type is ranked, with a shape      *)
(* whose dynamic extents are -1, or unranked.  The run is [ok,             *)
(* diagnostics, resultTy]: ok is FALSE once a cast<> or an index fails,    *)
(* diagnostics are the emitError messages so far, resultTy the type of     *)
(* the result afterwards.  emitError reports and returns; the function     *)
(* goes on after it.                                                       *)
(***************************************************************************)
RankedTensorType(shape, elem) ==
  [ranked |-> TRUE, shape |-> shape, elem |-> elem]

UnrankedTensorType(elem) == [ranked |-> FALSE, shape |-> <<>>, elem |-> elem]

\* shapeTensorTy.getShape()[0] reads behind an empty shape when the rank
\* is 0: outOfBounds is what that read gives, an abort or any number.
inferShapes(operand0Ty, operand1Ty, resultTy, outOfBounds) ==
  LET d1 == IF ~operand1Ty.ranked THEN <<"Shape tensor not ranked.">>
            ELSE <<>>
      d2 == IF Len(operand1Ty.shape) # 1
              THEN Append(d1, "Shape tensor must have rank one.")
            ELSE d1
      outputRank == IF Len(operand1Ty.shape) >= 1 THEN operand1Ty.shape[1]
                    ELSE outOfBounds.value
      d3 == IF outputRank < 0
              THEN Append(d2, "Shape tensor must have constant shape.")
            ELSE d2
      dims == [i \in 1..outputRank |-> 0 - 1]
  IN IF ~operand0Ty.ranked \/ ~operand1Ty.ranked
       THEN [ok |-> FALSE, diagnostics |-> d1, resultTy |-> resultTy]
     ELSE IF Len(operand1Ty.shape) = 0 /\ outOfBounds.abort
       THEN [ok |-> FALSE, diagnostics |-> d2, resultTy |-> resultTy]
     ELSE [ok |-> TRUE, diagnostics |-> d3,
           resultTy |-> RankedTensorType(dims, operand0Ty.elem)]

(***************************************************************************)
(* The values callers supply.                                              *)
(***************************************************************************)
Signs == {"signless", "signed", "unsigned"}

\* A caller-supplied value: operand number k (id = -k).
Operand(k, ty, val) == [id |-> 0 - k, ty |-> ty, val |-> val]

\* Patterns of a w-bit integer: 0, 1, -1, the minimum, the maximum, a mix.
SamplePatterns(w) ==
  {{}, {0}, AllOnes(w), {w - 1}, AllOnes(w) \ {w - 1}, {0, w - 1}}

\* Widths, vector shapes and values of the cast runs.
CastWidths == {1, 8, 32, 64}
FloatWidths == {32, 64}
VecLanes == 2

\* A vector content: first in lane 0, rest in the other lanes.
Lanes(first, rest) == [i \in 1..VecLanes |-> IF i = 1 THEN first ELSE rest]

CastScalarTypes ==
  {IntegerType(w, sg) : w \in CastWidths, sg \in Signs}
    \cup {IndexType} \cup {FloatType(w) : w \in FloatWidths}

CastTypes ==
  CastScalarTypes \cup {getTypeWithVector(VecLanes, t) : t \in CastScalarTypes}

ScalarSamples(t) ==
  IF t.kind = "float" THEN {{0 - 1}, {0}, {2}, {300}}
  ELSE SamplePatterns(BitsOf(t))

VectorSamples(t) ==
  IF t.kind = "float" THEN {Lanes({0 - 1}, {2})}
  ELSE {Lanes(AllOnes(BitsOf(t)), {0}), Lanes({}, {BitsOf(t) - 1})}

CastSources ==
  UNION {{Operand(1, t, v) : v \in ScalarSamples(t)} : t \in CastScalarTypes}
    \cup UNION {{Operand(1, getTypeWithVector(VecLanes, t), v) :
                   v \in VectorSamples(t)} : t \in CastScalarTypes}

(***************************************************************************)
(* The state machine.  Every action is one builder call: it appends the    *)
(* call's nodes to ops and logs the call.                                  *)
(***************************************************************************)
Init == ops = <<>> /\ calls = <<>>

\* The log entry of a call that ran from builder state B0 to B.
CallRecord(fn, args, ty, n, B0, B) ==
  [fn |-> fn, args |-> args, ty |-> ty, n |-> n,
   ret |-> B.ret, ok |-> B.ok, base |-> Len(B0.ops), end |-> Len(B.ops)]

Log(fn, args, ty, n, B) ==
  /\ ops' = B.ops
  /\ calls' = Append(calls, CallRecord(fn, args, ty, n, Builder(ops), B))

\* A call record with the call's further inputs and outputs in x.
LogX(fn, args, ty, n, B, x) ==
  /\ ops' = B.ops
  /\ calls' = Append(calls,
       [fn |-> fn, args |-> args, ty |-> ty, n |-> n, ret |-> B.ret,
        ok |-> B.ok, base |-> Len(ops), end |-> Len(B.ops), x |-> x])

Last(q) == q[Len(q)]

CastFns == {"cast", "castToIndex", "castToSignless", "castToUnsigned"}

\* A cast call starts a run or continues a run of cast calls that has not
\* aborted; it takes a caller's value first and the previous result after.
CastReady ==
  /\ Len(calls) < MaxCastCalls
  /\ calls # <<>> => (Last(calls).ok /\ Last(calls).fn \in CastFns)

CastOperands == IF calls = <<>> THEN CastSources ELSE {Last(calls).ret}

CastCall ==
  /\ CastReady
  /\ \E destType \in CastTypes, src \in CastOperands :
       Log("cast", <<src>>, destType, 0, cast(Builder(ops), destType, src))

CastToIndexCall ==
  /\ CastReady
  /\ \E src \in CastOperands :
       Log("castToIndex", <<src>>, IndexType, 0, castToIndex(Builder(ops), src))

CastToSignlessCall ==
  /\ CastReady
  /\ \E width \in CastWidths, val \in CastOperands :
       Log("castToSignless", <<val>>, NoType, width,
           castToSignless(Builder(ops), val, width))

CastToUnsignedCall ==
  /\ CastReady
  /\ \E width \in CastWidths, val \in CastOperands :
       Log("castToUnsigned", <<val>>, NoType, width,
           castToUnsigned(Builder(ops), val, width))

NextCast ==
  \/ CastCall
  \/ CastToIndexCall
  \/ CastToSignlessCall
  \/ CastToUnsignedCall

SpecCast == Init /\ [][NextCast]_vars

(***************************************************************************)
(* add and mul on operands of every small width, exhaustively.             *)
(***************************************************************************)
ArithWidths == 1..MaxArithWidth

ArithTypes ==
  {IntegerType(w, sg) : w \in ArithWidths, sg \in Signs}

ArithOperands(k) ==
  UNION {{Operand(k, t, v) : v \in SUBSET AllOnes(t.width)} : t \in ArithTypes}
    \cup {Operand(k, IntegerType(8, sg), v) :
            sg \in Signs, v \in SamplePatterns(8) \cup {{3, 6, 7}, {2, 5, 6}}}
    \cup {Operand(k, getTypeWithVector(VecLanes, IntegerType(8, sg)), v) :
            sg \in Signs, v \in {Lanes({3, 6, 7}, {0}), Lanes(AllOnes(8), {2, 5, 6})}}
    \cup {Operand(k, FloatType(32), {n}) : n \in {0 - 1, 2}}
    \cup {Operand(k, IndexType, v) : v \in {{0}, {1, IndexIntWidth - 1}}}

AddCall ==
  /\ calls = <<>>
  /\ \E lhs \in ArithOperands(1), rhs \in ArithOperands(2) :
       Log("add", <<lhs, rhs>>, NoType, 0, add(Builder(ops), lhs, rhs))

MulCall ==
  /\ calls = <<>>
  /\ \E lhs \in ArithOperands(1), rhs \in ArithOperands(2) :
       Log("mul", <<lhs, rhs>>, NoType, 0, mul(Builder(ops), lhs, rhs))

\* Index values of the index and offset lists.
IndexValues == {0, 1, 5}

\* Lists of n index-typed operands, numbered from k + 1.
RECURSIVE IndexLists(_, _)
IndexLists(k, n) ==
  IF n = 0 THEN {<<>>}
  ELSE {Append(q, Operand(k + n, IndexType, FromNat(v, IndexIntWidth))) :
          q \in IndexLists(k, n - 1), v \in IndexValues}

IndexRanks == 0..3

\* addOffsetToLeastSignificant on an index list and an offset list, the
\* output list being empty or holding an entry of an earlier use.
AddOffsetToLeastSignificantCall ==
  /\ calls = <<>>
  /\ \E R \in IndexRanks, K \in IndexRanks :
       \E indices \in IndexLists(0, R), offsets \in IndexLists(10, K),
          before \in IndexLists(20, 0) \cup IndexLists(20, 1) :
         LET r == addOffsetToLeastSignificant(Builder(ops), indices, offsets,
                                              before)
         IN LogX("addOffsetToLeastSignificant", indices, NoType, K, r.B,
                 [offsets |-> offsets, before |-> before,
                  computedIndices |-> r.computedIndices])

\* The operations of two operands besides add and mul.
BinaryFns ==
  {"sub", "div", "rem", "ceilDiv", "floorDiv", "min", "max",
   "andi", "ori", "xori", "copySign", "pow", "eq", "neq",
   "sgt", "sge", "slt", "sle", "ugt", "uge", "ult", "ule",
   "gt", "ge", "lt", "le"}

ApplyBinary(fn, B, lhs, rhs) ==
  CASE fn = "sub" -> sub(B, lhs, rhs)
    [] fn = "div" -> div(B, lhs, rhs)
    [] fn = "rem" -> rem(B, lhs, rhs)
    [] fn = "ceilDiv" -> ceilDiv(B, lhs, rhs)
    [] fn = "floorDiv" -> floorDiv(B, lhs, rhs)
    [] fn = "min" -> min(B, lhs, rhs)
    [] fn = "max" -> max(B, lhs, rhs)
    [] fn = "andi" -> andi(B, lhs, rhs)
    [] fn = "ori" -> ori(B, lhs, rhs)
    [] fn = "xori" -> xori(B, lhs, rhs)
    [] fn = "copySign" -> copySign(B, lhs, rhs)
    [] fn = "pow" -> pow(B, lhs, rhs)
    [] fn = "eq" -> eq(B, lhs, rhs)
    [] fn = "neq" -> neq(B, lhs, rhs)
    [] fn = "sgt" -> sgt(B, lhs, rhs)
    [] fn = "sge" -> sge(B, lhs, rhs)
    [] fn = "slt" -> slt(B, lhs, rhs)
    [] fn = "sle" -> sle(B, lhs, rhs)
    [] fn = "ugt" -> ugt(B, lhs, rhs)
    [] fn = "uge" -> uge(B, lhs, rhs)
    [] fn = "ult" -> ult(B, lhs, rhs)
    [] fn = "ule" -> ule(B, lhs, rhs)
    [] fn = "gt" -> gt(B, lhs, rhs)
    [] fn = "ge" -> ge(B, lhs, rhs)
    [] fn = "lt" -> lt(B, lhs, rhs)
    [] fn = "le" -> le(B, lhs, rhs)

\* Contents of the operands of a type: every pattern of the small widths,
\* samples of the 8-bit ones (0, 1, 3, 100, 128, 200, 255), index values
\* 0, 3, 100, -1, -7, small floats, and vectors of these.
BinaryValues(t) ==
  IF t.lanes # 0
    THEN (IF t.kind = "float" THEN {Lanes({7}, {0 - 3}), Lanes({2}, {2})}
          ELSE {Lanes({3, 6, 7}, {0, 1}), Lanes({2, 5, 6}, AllOnes(8)),
                Lanes({0, 1}, {7})})
  ELSE IF t.kind = "float" THEN {{0 - 3}, {0}, {2}, {7}}
  ELSE IF t.kind = "index"
    THEN {{}, {0, 1}, {2, 5, 6}, AllOnes(IndexIntWidth),
          AllOnes(IndexIntWidth) \ {1, 2}}
  ELSE IF t.width <= MaxArithWidth THEN SUBSET AllOnes(t.width)
  ELSE {{}, {0}, {0, 1}, {2, 5, 6}, {7}, {3, 6, 7}, AllOnes(8)}

\* Operand types: integers of the small widths and of 8 bits, index, two
\* floats, and vectors of two shapes.
BinaryTypes ==
  ArithTypes
    \cup {IntegerType(8, sg) : sg \in Signs}
    \cup {IndexType, FloatType(32), FloatType(64)}
    \cup {getTypeWithVector(VecLanes, IntegerType(8, sg)) : sg \in Signs}
    \cup {getTypeWithVector(VecLanes, FloatType(32)),
          getTypeWithVector(VecLanes + 1, FloatType(32)),
          getTypeWithVector(VecLanes + 1, IntegerType(8, "signless"))}

\* One content per type, for the operands of different types.
SampleValue(t) ==
  IF t.lanes # 0
    THEN [i \in 1..t.lanes |-> IF t.kind = "float" THEN {2} ELSE {0, 1}]
  ELSE IF t.kind = "float" THEN {2}
  ELSE {0}

\* Pairs of operands: of one type with every content, and of two
\* different types.
BinaryPairs ==
  UNION {{<<Operand(1, t, a), Operand(2, t, b)>> :
            a \in BinaryValues(t), b \in BinaryValues(t)} :
          t \in {u \in BinaryTypes : u.lanes \in {0, VecLanes}}}
    \cup {<<Operand(1, t, SampleValue(t)), Operand(2, u, SampleValue(u))>> :
            t \in BinaryTypes, u \in BinaryTypes}

BinaryCall ==
  /\ calls = <<>>
  /\ \E fn \in BinaryFns, pair \in BinaryPairs :
       Log(fn, pair, NoType, 0,
           ApplyBinary(fn, Builder(ops), pair[1], pair[2]))

\* fma on three operands, one of which may be of another type.
FmaCall ==
  /\ calls = <<>>
  /\ \E t \in BinaryTypes, u \in BinaryTypes, odd \in 0..3 :
       LET Arg(k) == IF k = odd THEN Operand(k, u, SampleValue(u))
                     ELSE Operand(k, t, SampleValue(t))
       IN Log("fma", <<Arg(1), Arg(2), Arg(3)>>, NoType, 0,
              fma(Builder(ops), Arg(1), Arg(2), Arg(3)))

\* select on a boolean condition and two values.
SelectCall ==
  /\ calls = <<>>
  /\ \E t \in BinaryTypes, u \in BinaryTypes, c \in {{}, {0}} :
       LET cmp == Operand(1, IntegerType(1, "signless"), c)
           lhs == Operand(2, t, SampleValue(t))
           rhs == Operand(3, u, IF u.lanes = 0 /\ u.kind # "float"
                                  THEN {} ELSE SampleValue(u))
       IN Log("select", <<cmp, lhs, rhs>>, NoType, 0,
              select(Builder(ops), cmp, lhs, rhs))

\* The types the infinities are asked for: every float and integer type
\* of a usual width, index, and a vector.
InfWidths == {1, 4, 8, 16, 32, 64}
InfTypes ==
  {FloatType(w) : w \in {16, 32, 64}}
    \cup {IntegerType(w, s) : w \in InfWidths, s \in Signs}
    \cup {IndexType, getTypeWithVector(VecLanes, FloatType(32))}

\* The attribute function leaves the program alone; its record holds the
\* attribute as a value without a node.
InfAttrCall ==
  /\ calls = <<>>
  /\ \E fn \in {"negativeInfAttr", "positiveInfAttr"}, type \in InfTypes :
       LET attr == IF fn = "negativeInfAttr" THEN negativeInfAttr(type)
                   ELSE positiveInfAttr(type)
           B == IF attr.ok
                  THEN Return(Builder(ops),
                              [id |-> 0, ty |-> attr.ty, val |-> attr.val])
                ELSE Abort(Builder(ops))
       IN Log(fn, <<>>, type, 0, B)

InfCall ==
  /\ calls = <<>>
  /\ \E fn \in {"negativeInf", "positiveInf"}, type \in InfTypes :
       Log(fn, <<>>, type, 0,
           IF fn = "negativeInf" THEN negativeInf(Builder(ops), type)
           ELSE positiveInf(Builder(ops), type))

NextMath ==
  \/ AddCall
  \/ MulCall
  \/ AddOffsetToLeastSignificantCall
  \/ BinaryCall
  \/ FmaCall
  \/ SelectCall
  \/ InfAttrCall
  \/ InfCall

SpecMath == Init /\ [][NextMath]_vars

(***************************************************************************)
(* MemRefBuilder calls.                                                    *)
(***************************************************************************)
Extents == {kDynamic} \cup (0..MaxExtent)

RECURSIVE ShapesOfRank(_)
ShapesOfRank(r) ==
  IF r = 0 THEN {<<>>}
  ELSE {<<e>> \o q : e \in Extents, q \in ShapesOfRank(r - 1)}

Ranks == {0, 1, 2}

Shapes == UNION {ShapesOfRank(r) : r \in Ranks}

MemElemTypes ==
  {FloatType(32), IntegerType(8, "signless"), IntegerType(4, "signless"),
   IntegerType(1, "signless"), IntegerType(64, "unsigned"), IndexType,
   getTypeWithVector(VecLanes, FloatType(32))}

NumDynamic(shape) == Cardinality({i \in 1..Len(shape) : shape[i] = kDynamic})

\* Run-time values of the dynamic extents.
DynValues == {1, 3}

DynSymbol(k, n) == Operand(10 + k, IndexType, FromNat(n, IndexIntWidth))

\* Lists of k dynamic symbols.
RECURSIVE SymbolLists(_)
SymbolLists(k) ==
  IF k = 0 THEN {<<>>}
  ELSE {Append(q, DynSymbol(k, n)) : q \in SymbolLists(k - 1), n \in DynValues}

\* What callers pass for a shape: its dynamic symbols, and lists with one
\* symbol too few or too many.
DynSymbolsFor(shape) ==
  SymbolLists(NumDynamic(shape))
    \cup {Append(q, DynSymbol(Len(q) + 1, 1)) :
            q \in {p \in SymbolLists(NumDynamic(shape)) :
                     \A i \in 1..Len(p) : p[i].val = {0}}}
    \cup (IF NumDynamic(shape) = 0 THEN {}
          ELSE {q \in SymbolLists(NumDynamic(shape) - 1) :
                  \A i \in 1..Len(q) : q[i].val = {0}})

SimdUnrolls == {0, 1, 2}
VmsLengths == {0, 1, 4}
Alignments == {defaultAlign, 64}

AlignedAllocWithSimdPaddingCall ==
  /\ calls = <<>>
  /\ \E shape \in Shapes, elem \in MemElemTypes, identity \in BOOLEAN,
        simdUnroll \in SimdUnrolls, alignment \in Alignments,
        vmsLength \in VmsLengths :
       \E dynSymbols \in DynSymbolsFor(shape) :
         LET type == [MemRefType(shape, elem) EXCEPT !.identity = identity]
         IN LogX("alignedAllocWithSimdPadding", dynSymbols, type, simdUnroll,
                 alignedAllocWithSimdPadding(Builder(ops), type, dynSymbols,
                                             simdUnroll, alignment, vmsLength),
                 [alignment |-> alignment, vmsLength |-> vmsLength])

\* getStaticAndDynamicMemSize(type, dynSymbols, staticSize, dynSize): emits
\* nothing; x holds the two outputs and the returned flag.
GetStaticAndDynamicMemSizeCall ==
  /\ calls = <<>>
  /\ \E shape \in Shapes, elem \in MemElemTypes :
       \E dynSymbols \in DynSymbolsFor(shape) :
         LET type == MemRefType(shape, elem)
             size == getStaticAndDynamicMemSize(type, dynSymbols)
         IN LogX("getStaticAndDynamicMemSize", dynSymbols, type, 0,
                 IF size.ok THEN Builder(ops) ELSE Abort(Builder(ops)),
                 [staticSize |-> size.staticSize, dynSize |-> size.dynSize,
                  staticShape |-> size.staticShape])

\* Alignments asked of alignedAlloc and alignedAlloca.
RequestedAlignments == {defaultAlign, 0, 8, 16, 32, 64}

AllocFns == {"alloc", "alignedAlloc", "alloca", "alignedAlloca"}

\* One call of alloc, alignedAlloc, alloca or alignedAlloca; alloc and
\* alloca take no alignment, which is logged as defaultAlign.
AllocCall ==
  /\ calls = <<>>
  /\ \E fn \in AllocFns, shape \in Shapes, elem \in MemElemTypes,
        alignment \in RequestedAlignments :
       \E dynSymbols \in SymbolLists(NumDynamic(shape)) :
         LET type == MemRefType(shape, elem)
             B == Builder(ops)
         IN /\ fn \in {"alloc", "alloca"} => alignment = defaultAlign
            /\ fn \in {"alloca", "alignedAlloca"} => dynSymbols = <<>>
            /\ LogX(fn, dynSymbols, type, 0,
                    CASE fn = "alloc" -> alloc(B, type, dynSymbols)
                      [] fn = "alignedAlloc" ->
                           alignedAlloc(B, type, dynSymbols, alignment)
                      [] fn = "alloca" -> alloca(B, type)
                      [] fn = "alignedAlloca" ->
                           alignedAlloca(B, type, alignment),
                    [alignment |-> alignment])

\* The dimension list of a buffer: a literal per static extent; per
\* dynamic extent a symbol (a caller's value) or a computed expression,
\* holding the next run-time value of dynVals.
RECURSIVE DimsOf(_, _, _, _)
DimsOf(shape, dynVals, asSymbols, k) ==
  IF shape = <<>> THEN <<>>
  ELSE IF Head(shape) = kDynamic
    THEN <<IF asSymbols THEN SymbolOfValue(DynSymbol(k, Head(dynVals)))
           ELSE [lit |-> FALSE, n |-> Head(dynVals), h |-> NoValue]>>
           \o DimsOf(Tail(shape), Tail(dynVals), asSymbols, k + 1)
  ELSE <<LiteralIndexExpr(Head(shape))>>
         \o DimsOf(Tail(shape), dynVals, asSymbols, k)

RECURSIVE ValueLists(_)
ValueLists(k) ==
  IF k = 0 THEN {<<>>}
  ELSE {Append(q, n) : q \in ValueLists(k - 1), n \in DynValues}

\* A caller's buffer of the given type whose dynamic extents are dynVals.
BufferOperand(type, dynVals) ==
  LET shape == RuntimeShape(type.shape, dynVals)
  IN Operand(1, type, [shape |-> shape, elems |-> SeqProduct(shape)])

DimsToFlatten == {0 - 1, 0, 1, 2, 3}

Reversed(q) == [i \in 1..Len(q) |-> q[Len(q) + 1 - i]]

\* Shapes of the buffers that are flattened: those of Shapes and rank-3
\* shapes of small extents.
ReshapeShapes ==
  Shapes \cup {<<a, b, c>> : a \in {kDynamic, 2}, b \in {kDynamic, 3},
                            c \in {kDynamic, 0, 3}}

ReshapeToFlatCall ==
  /\ calls = <<>>
  /\ \E shape \in ReshapeShapes, identity \in BOOLEAN, asSymbols \in BOOLEAN,
        dropDim \in BOOLEAN, dimsToFlatten \in DimsToFlatten :
       \E dynVals \in ValueLists(NumDynamic(shape)) :
         LET type == [MemRefType(shape, FloatType(32))
                        EXCEPT !.identity = identity]
             valToReshape == BufferOperand(type, dynVals)
             allDims == DimsOf(shape, dynVals, asSymbols, 1)
             dims == IF dropDim /\ allDims # <<>>
                       THEN SubSeq(allDims, 1, Len(allDims) - 1)
                     ELSE allDims
             B == reshapeToFlat(Builder(ops), valToReshape, dims,
                                dimsToFlatten)
         IN LogX("reshapeToFlat", <<valToReshape>>, NoType, dimsToFlatten, B,
                 [dims |-> dims, flattenedSize |-> B.flattenedSize])

\* reshapeFromFlat of the value reshapeToFlat returned, with the dimension
\* list of the first call or its reverse.
ReshapeFromFlatCall ==
  /\ Len(calls) = 1
  /\ calls[1].fn = "reshapeToFlat"
  /\ calls[1].ok
  /\ \E identity \in BOOLEAN, reverse \in BOOLEAN :
       LET outputType == [calls[1].args[1].ty EXCEPT !.identity = identity]
           dims == IF reverse THEN Reversed(calls[1].x.dims)
                   ELSE calls[1].x.dims
       IN LogX("reshapeFromFlat", <<calls[1].ret>>, outputType, 0,
               reshapeFromFlat(Builder(ops), calls[1].ret, dims, outputType),
               [dims |-> dims])

\* reinterpretCast of a rank-1 buffer to the extents of a dimension list.
ReinterpretCastCall ==
  /\ calls = <<>>
  /\ \E shape \in ReshapeShapes, asSymbols \in BOOLEAN, n \in DynValues,
        inputShape \in {<<kDynamic>>, <<MaxExtent>>} :
       \E dynVals \in ValueLists(NumDynamic(shape)) :
         LET input == BufferOperand(MemRefType(inputShape, FloatType(32)),
                                    <<n>>)
             outputDims == DimsOf(shape, dynVals, asSymbols, 1)
         IN LogX("reinterpretCast", <<input>>, NoType, 0,
                 reinterpretCast(Builder(ops), input, outputDims),
                 [outputDims |-> outputDims])

\* The groupings of the dimensions lo..R-1 into runs of neighbours.
RECURSIVE Groupings(_, _)
Groupings(lo, R) ==
  IF lo >= R THEN {<<>>}
  ELSE UNION {{<<[k \in 1..(hi - lo) |-> lo + k - 1]>> \o rest :
                 rest \in Groupings(hi, R)} : hi \in (lo + 1)..R}

\* What callers pass for a buffer of rank R: its groupings, and groupings
\* with an empty group or with an index that is no dimension.
ReassociationsFor(R) ==
  Groupings(0, R)
    \cup {Append(g, <<>>) : g \in Groupings(0, R)}
    \cup {Append(g, <<R>>) : g \in Groupings(0, R)}
    \cup {<<<<0 - 1>>>> \o g : g \in Groupings(0, R)}
    \cup {[g EXCEPT ![Len(g)] = Append(@, R)] :
            g \in Groupings(0, R) \ {<<>>}}

CollapseShapeCall ==
  /\ calls = <<>>
  /\ \E shape \in ReshapeShapes, identity \in BOOLEAN :
       \E dynVals \in ValueLists(NumDynamic(shape)),
          reassociation \in ReassociationsFor(Len(shape)) :
         LET type == [MemRefType(shape, FloatType(32))
                        EXCEPT !.identity = identity]
             input == BufferOperand(type, dynVals)
         IN LogX("collapseShape", <<input>>, NoType, 0,
                 collapseShape(Builder(ops), input, reassociation),
                 [reassociation |-> reassociation])

NextMem ==
  \/ AlignedAllocWithSimdPaddingCall
  \/ GetStaticAndDynamicMemSizeCall
  \/ AllocCall
  \/ ReinterpretCastCall
  \/ CollapseShapeCall
  \/ ReshapeToFlatCall
  \/ ReshapeFromFlatCall

SpecMem == Init /\ [][NextMem]_vars

(***************************************************************************)
(* VectorBuilder calls.                                                    *)
(***************************************************************************)
VectorLengths == {1, 2, 4}

ReductionElemTypes ==
  {IntegerType(8, "signless"), IntegerType(8, "unsigned"),
   IntegerType(32, "signed"), IndexType, FloatType(32)}

\* Lane contents of the N input vectors: "one" puts a 1 in lane l of vector
\* k and 0 elsewhere, "ramp" gives every lane its own number, "max" sets
\* every bit of every lane.
LaneContent(family, k, l, elem, VL, i, j) ==
  IF elem.kind = "float" THEN {i + j}
  ELSE IF family = "one" THEN (IF i = k /\ j = l THEN {0} ELSE {})
  ELSE IF family = "ramp"
    THEN FromNat((((i - 1) * VL + j) * 37) % 256, BitsOf(elem))
  ELSE IF BitsOf(elem) > 8 THEN {0, 1} ELSE AllOnes(BitsOf(elem))

InputVectors(family, k, l, elem, VL, N) ==
  [i \in 1..N |->
     Operand(i, getTypeWithVector(VL, elem),
             [j \in 1..VL |-> LaneContent(family, k, l, elem, VL, i, j)])]

\* A malformed input list: a scalar in front, or a longer last vector.
Faulty(fault, vecs) ==
  IF vecs = <<>> \/ fault = "none" THEN vecs
  ELSE IF fault = "scalarFirst"
    THEN [vecs EXCEPT ![1] = Operand(1, elementTypeWithVector(vecs[1].ty),
                                     vecs[1].val[1])]
  ELSE [vecs EXCEPT ![Len(vecs)] =
          Operand(Len(vecs), getTypeWithVector(2 * vecs[1].ty.lanes,
                                               elementTypeWithVector(vecs[1].ty)),
                  vecs[Len(vecs)].val \o vecs[Len(vecs)].val)]

ContentChoices(VL, N) ==
  {<<"one", k, l>> : k \in 1..N, l \in 1..VL}
    \cup {<<"ramp", 0, 0>>, <<"max", 0, 0>>}

\* What outputVecArray holds when the call starts: nothing, or a vector of
\* an earlier use (operand number MaxVectors + 1).
PreviousOutputs(vecType) ==
  {<<>>, <<Operand(MaxVectors + 1, vecType, [j \in 1..vecType.lanes |-> {}])>>}

MultiReductionCall ==
  /\ calls = <<>>
  /\ \E elem \in ReductionElemTypes, VL \in VectorLengths,
        N \in 0..MaxVectors, vmsLength \in VmsLengths \cup {2},
        fault \in {"none", "scalarFirst", "longLast"} :
       \E content \in ContentChoices(VL, N),
          prevOutput \in PreviousOutputs(getTypeWithVector(VL, elem)) :
         LET inputVecArray ==
               Faulty(fault, InputVectors(content[1], content[2], content[3],
                                          elem, VL, N))
             R == multiReduction(Builder(ops), inputVecArray, prevOutput,
                                 vmsLength)
         IN LogX("multiReduction", inputVecArray, NoType, N, R.B,
                 [vmsLength |-> vmsLength, out |-> R.out,
                  prev |-> prevOutput])

\* mergeHigh and mergeLow called directly, once or one after the other:
\* vectors of 1 to 8 lanes, of equal and of different lengths, and steps
\* that are powers of two or not.
MergeLengths == {1, 2, 3, 4, 6, 8}
MergeSteps == {1, 2, 3, 4}

MergeOperand(k, VL) ==
  Operand(k, getTypeWithVector(VL, IntegerType(8, "signless")),
          [j \in 1..VL |-> FromNat(16 * k + j - 1, 8)])

MergeCall ==
  /\ Len(calls) <= 1
  /\ \A i \in 1..Len(calls) : calls[i].fn \in {"mergeHigh", "mergeLow"}
  /\ \E fn \in {"mergeHigh", "mergeLow"}, VL \in MergeLengths,
        rhsVL \in MergeLengths, step \in MergeSteps :
       LET lhs == MergeOperand(1, VL)
           rhs == MergeOperand(2, rhsVL)
       IN /\ rhsVL \in {VL, 2 * VL}
          /\ Log(fn, <<lhs, rhs>>, NoType, step,
                 IF fn = "mergeHigh" THEN mergeHigh(Builder(ops), lhs, rhs, step)
                 ELSE mergeLow(Builder(ops), lhs, rhs, step))

NextVec ==
  \/ MultiReductionCall
  \/ MergeCall

SpecVec == Init /\ [][NextVec]_vars

(***************************************************************************)
(* Shape inference of a reshape operation.                                 *)
(***************************************************************************)
TensorElemTypes == {FloatType(32), IntegerType(64, "signless")}

DataTensorTypes ==
  {UnrankedTensorType(e) : e \in TensorElemTypes}
    \cup {RankedTensorType(sh, e) :
            sh \in {<<2, 3>>, <<0 - 1>>}, e \in TensorElemTypes}

ShapeTensorTypes ==
  {UnrankedTensorType(IntegerType(64, "signless"))}
    \cup {RankedTensorType(sh, IntegerType(64, "signless")) :
            sh \in {<<>>} \cup {<<n>> : n \in {0 - 1, 0, 1, 2, 3}}
                     \cup {<<m, n>> : m, n \in {0 - 1, 2}}}

\* What a read behind the end of an empty shape can give.
OutOfBoundsReads ==
  {[abort |-> TRUE, value |-> 0]}
    \cup {[abort |-> FALSE, value |-> v] : v \in {0 - 1, 0, 2}}

InferShapesCall ==
  /\ calls = <<>>
  /\ \E operand0Ty \in DataTensorTypes, operand1Ty \in ShapeTensorTypes,
        resultTy \in DataTensorTypes, outOfBounds \in OutOfBoundsReads :
       LET R == inferShapes(operand0Ty, operand1Ty, resultTy, outOfBounds)
       IN LogX("inferShapes", <<operand0Ty, operand1Ty>>, NoType, 0,
               IF R.ok THEN Builder(ops) ELSE Abort(Builder(ops)),
               [before |-> resultTy, diagnostics |-> R.diagnostics,
                resultTy |-> R.resultTy])

NextInfer ==
  \/ InferShapesCall

SpecInfer == Init /\ [][NextInfer]_vars

(***************************************************************************)
(* Sequences of calls on one builder: a later call takes values the        *)
(* caller supplies and results of earlier calls.  A failed assertion ends  *)
(* the program, so no call follows it.                                     *)
(***************************************************************************)
ChainFns == {"add", "alignedAlloc", "multiReduction"}

ChainOperands ==
  {Operand(1, IntegerType(8, "unsigned"), FromNat(200, 8)),
   Operand(2, IntegerType(8, "signless"), FromNat(3, 8)),
   Operand(3, IndexType, FromNat(3, IndexIntWidth)),
   Operand(4, getTypeWithVector(2, IntegerType(8, "unsigned")),
           <<FromNat(200, 8), FromNat(100, 8)>>)}

\* The values a caller holds: its own, and what earlier calls returned
\* (x.out of the record of a call; x.seq is the call's place in the
\* sequence).
ChainValues ==
  ChainOperands
    \cup UNION {{calls[i].x.out[k] : k \in DOMAIN calls[i].x.out} :
                i \in DOMAIN calls}

\* The scalars and vectors among them, which the arithmetic and the
\* reduction take.
ChainNumbers == {v \in ChainValues : v.ty.kind \in {"int", "index", "float"}}

ChainOpen ==
  /\ Len(calls) < MaxChainCalls
  /\ \A i \in 1..Len(calls) :
       /\ calls[i].ok
       /\ calls[i].fn \in ChainFns
       /\ "x" \in DOMAIN calls[i]
       /\ "seq" \in DOMAIN calls[i].x

ChainAddCall ==
  /\ ChainOpen
  /\ \E lhs \in ChainNumbers, rhs \in ChainNumbers :
       LET B == add(Builder(ops), lhs, rhs)
       IN LogX("add", <<lhs, rhs>>, NoType, 0, B,
               [out |-> <<B.ret>>, seq |-> Len(calls) + 1])

ChainAlignedAllocCall ==
  /\ ChainOpen
  /\ \E sym \in {v \in ChainNumbers : isaIndexType(v.ty)} :
       LET B == alignedAlloc(Builder(ops),
                             MemRefType(<<2, kDynamic>>, FloatType(32)),
                             <<sym>>, defaultAlign)
       IN LogX("alignedAlloc", <<sym>>, NoType, 0, B,
               [out |-> <<B.ret>>, seq |-> Len(calls) + 1])

ChainMultiReductionCall ==
  /\ ChainOpen
  /\ \E a \in ChainNumbers, b \in ChainNumbers :
       /\ a.ty.lanes = 2 /\ b.ty.lanes = 2
       /\ LET R == multiReduction(Builder(ops), <<a, b>>, <<>>, 2)
          IN LogX("multiReduction", <<a, b>>, NoType, 2, R.B,
                  [vmsLength |-> 2,
                   out |-> R.out,
                   prev |-> <<>>, seq |-> Len(calls) + 1])

NextChain ==
  \/ ChainAddCall
  \/ ChainAlignedAllocCall
  \/ ChainMultiReductionCall

SpecChain == Init /\ [][NextChain]_vars

(***************************************************************************)
(* multiReduction, one iteration of its step loop at a time.  The one      *)
(* record in calls holds the function's locals in x: inputVecArray,        *)
(* tmpArray, outputVecArray, r, step, numPairs, and pc, "steps" while the  *)
(* loops run.  For the properties it also keeps tmpArray as it was before  *)
(* the last iteration (before), the number of nodes then (from), the       *)
(* steps taken in the current group (steps) and in the group finished      *)
(* last (lastSteps).                                                       *)
(***************************************************************************)
StepElemTypes == {IntegerType(8, "unsigned"), IntegerType(8, "signless")}

\* The asserts and the copy into tmpArray, up to outputVecArray.clear().
ReduceBeginCall ==
  /\ calls = <<>>
  /\ \E elem \in StepElemTypes, VL \in VectorLengths, N \in 0..MaxVectors,
        vmsLength \in VmsLengths \cup {2}, family \in {"ramp", "max"} :
       LET inputVecArray == InputVectors(family, 0, 0, elem, VL, N)
           machineVL == getMachineVectorLength(vmsLength)
           accepted == multiReduction(Builder(ops), inputVecArray, <<>>,
                                      vmsLength).B.ok
       IN LogX("multiReductionSteps", inputVecArray, NoType, N,
               IF accepted THEN Builder(ops) ELSE Abort(Builder(ops)),
               [pc |-> IF accepted THEN "steps" ELSE "aborted",
                inputVecArray |-> inputVecArray,
                tmpArray |-> inputVecArray, outputVecArray |-> <<>>,
                machineVL |-> machineVL, vmsLength |-> vmsLength,
                r |-> 0, step |-> 1, numPairs |-> machineVL \div 2,
                before |-> inputVecArray, from |-> Len(ops),
                steps |-> <<>>, lastSteps |-> <<>>])

\* One iteration of for (step = 1; step < machineVL; step = step * 2):
\* the pair loop, then numPairs = numPairs / 2.
ReduceStep ==
  /\ Len(calls) = 1
  /\ calls[1].fn = "multiReductionSteps"
  /\ calls[1].x.pc = "steps"
  /\ calls[1].x.step < calls[1].x.machineVL
  /\ LET c == calls[1]
         S == ReducePairs([B |-> Builder(ops), tmp |-> c.x.tmpArray],
                          c.x.r, c.x.step, 0, c.x.numPairs)
     IN /\ ops' = S.B.ops
        /\ calls' = <<[c EXCEPT !.ok = S.B.ok, !.end = Len(S.B.ops),
                                !.x.pc = IF S.B.ok THEN "steps" ELSE "aborted",
                                !.x.tmpArray = S.tmp,
                                !.x.step = c.x.step * 2,
                                !.x.numPairs = c.x.numPairs \div 2,
                                !.x.before = c.x.tmpArray,
                                !.x.from = Len(ops),
                                !.x.steps = Append(c.x.steps, c.x.step)]>>

\* The step loop is over: outputVecArray.emplace_back(tmpArray[r]), then
\* r += machineVL and the test r < N of the group loop.
ReduceGroupDone ==
  /\ Len(calls) = 1
  /\ calls[1].fn = "multiReductionSteps"
  /\ calls[1].x.pc = "steps"
  /\ ~(calls[1].x.step < calls[1].x.machineVL)
  /\ LET c == calls[1]
         r == c.x.r + c.x.machineVL
     IN /\ ops' = ops
        /\ calls' = <<[c EXCEPT !.x.outputVecArray =
                                  Append(c.x.outputVecArray,
                                         c.x.tmpArray[c.x.r + 1]),
                                !.x.r = r,
                                !.x.pc = IF r < c.n THEN "steps" ELSE "done",
                                !.x.step = 1,
                                !.x.numPairs = c.x.machineVL \div 2,
                                !.x.before = c.x.tmpArray,
                                !.x.from = Len(ops),
                                !.x.steps = <<>>,
                                !.x.lastSteps = c.x.steps]>>

NextSteps ==
  \/ ReduceBeginCall
  \/ ReduceStep
  \/ ReduceGroupDone

SpecSteps == Init /\ [][NextSteps]_vars

Next ==
  \/ NextCast
  \/ NextMath
  \/ NextMem
  \/ NextVec
  \/ NextInfer
  \/ NextChain
  \/ NextSteps

Spec == Init /\ [][Next]_vars

(***************************************************************************)
(* Properties.                                                             *)
(***************************************************************************)
\* The nodes call c appended are ops[c.base + 1 .. c.end].
NodesOf(c) == [k \in 1..(c.end - c.base) |-> ops[c.base + k]]

OpsOf(c) == [k \in 1..(c.end - c.base) |-> ops[c.base + k].op]

Reinterpret == "builtin.unrealized_conversion_cast"

\* C1: add and mul of two unsigned w-bit integers of the same type return
\* (a + b) mod 2^w and (a * b) mod 2^w in the unsigned w-bit type, through
\* castToSignless of both operands, the sum of the extended add (the low
\* half of the extended multiply) and castToUnsigned.
C1_UnsignedAddMulWrap ==
  \A i \in DOMAIN calls :
    LET c == calls[i]
        a == c.args[1]
        b == c.args[2]
        w == a.ty.width
        exact == IF c.fn = "add" THEN ToNat(a.val) + ToNat(b.val)
                 ELSE ToNat(a.val) * ToNat(b.val)
    IN (c.fn \in {"add", "mul"} /\ isUnsignedInteger(a.ty) /\ b.ty = a.ty)
         => /\ c.ok
            /\ c.ret.ty = IntegerType(w, "unsigned")
            /\ c.ret.val \subseteq AllOnes(w)
            /\ ToNat(c.ret.val) = exact % (2^w)
            /\ OpsOf(c) = <<Reinterpret, Reinterpret,
                            IF c.fn = "add" THEN "arith.addui_extended.sum"
                            ELSE "arith.mului_extended.low",
                            Reinterpret>>
            /\ NodesOf(c)[1].ty = IntegerType(w, "signless")
            /\ NodesOf(c)[2].ty = IntegerType(w, "signless")

\* C1 witness: an unsigned add or mul whose exact result does not fit in
\* w bits has returned.
C1_Witness ==
  \E i \in DOMAIN calls :
    LET c == calls[i]
        a == c.args[1]
        b == c.args[2]
    IN /\ c.fn = "mul" /\ c.ok
       /\ a.ty = IntegerType(8, "unsigned") /\ b.ty = a.ty
       /\ ToNat(a.val) = 200 /\ ToNat(b.val) = 100
       /\ ToNat(c.ret.val) = 32

IsBool(t) == elementTypeWithVector(t) = IntegerType(1, "signless")

IsBoolVal(t, v) ==
  IF t.lanes = 0 THEN v \in {{}, {0}}
  ELSE \A k \in 1..t.lanes : v[k] \in {{}, {0}}

\* C4: cast of a 1-bit boolean to a signless integer or index type is a
\* zero extension: the result has the destination type, true becomes 1 and
\* false becomes 0 (the bit pattern is kept, so never all ones).
C4_BoolToIntZeroExtends ==
  \A i \in DOMAIN calls :
    LET c == calls[i]
        src == c.args[1]
        destElem == elementTypeWithVector(c.ty)
    IN (/\ c.fn \in {"cast", "castToIndex"}
        /\ IsBool(src.ty) /\ IsBoolVal(src.ty, src.val)
        /\ c.ty.lanes = src.ty.lanes
        /\ \/ destElem = IndexType
           \/ (isSignlessInteger(destElem) /\ destElem.width > 1))
         => /\ c.ok
            /\ c.ret.ty = c.ty
            /\ c.ret.val = src.val
            /\ OpsOf(c)[1] = "arith.extui"

\* C4 witness: boolean true has been cast to int32 and the result is 1.
C4_Witness ==
  \E i \in DOMAIN calls :
    LET c == calls[i]
    IN /\ c.fn = "cast" /\ c.ok
       /\ c.args[1].ty = IntegerType(1, "signless") /\ c.args[1].val = {0}
       /\ c.ty = IntegerType(32, "signless")
       /\ c.ret.ty = c.ty /\ c.ret.val = {0} /\ c.ret.val # AllOnes(32)

\* Same-width reinterpretation: signed or signless to unsigned, or unsigned
\* to signless, for the widths in W.
SameWidthReinterprets(W) ==
  \A i \in DOMAIN calls :
    LET c == calls[i]
        src == c.args[1]
    IN (/\ c.fn = "cast"
        /\ isaIntegerType(src.ty) /\ isaIntegerType(c.ty)
        /\ src.ty.width = c.ty.width /\ src.ty.width \in W
        /\ \/ (~isUnsignedInteger(src.ty) /\ isUnsignedInteger(c.ty))
           \/ (isUnsignedInteger(src.ty) /\ isSignlessInteger(c.ty)))
         => /\ c.ok
            /\ c.ret.ty = c.ty
            /\ c.ret.val = src.val
            /\ OpsOf(c) = <<Reinterpret>>

\* C5 as stated: for every width w, cast of a signed or signless w-bit
\* integer to the unsigned w-bit type (and of an unsigned one to the
\* signless type) is a pure reinterpretation: same bit pattern, the
\* destination type, and no extension or truncation emitted.
C5_ReinterpretEveryWidth == SameWidthReinterprets(CastWidths)

\* C5 amended: the same for every width w >= 2; a 1-bit source falls under
\* the boolean rule of cast, which emits a zero extension.
C5_ReinterpretWidthAbove1 == SameWidthReinterprets(CastWidths \ {1})

\* C5 witness: int8(-1) has been cast to uint8 and the result is 255.
C5_Witness ==
  \E i \in DOMAIN calls :
    LET c == calls[i]
    IN /\ c.fn = "cast" /\ c.ok
       /\ c.args[1].ty = IntegerType(8, "signed")
       /\ c.args[1].val = AllOnes(8)
       /\ c.ty = IntegerType(8, "unsigned")
       /\ c.ret.ty = c.ty /\ ToNat(c.ret.val) = 255

\* S is a wider integer type of the signedness of T, or index over a
\* signless T of at most 64 bits.
WidensTo(T, S) ==
  \/ isaIntegerType(S) /\ S.sign = T.sign /\ S.width > T.width
  \/ S = IndexType /\ isSignlessInteger(T) /\ T.width <= IndexIntWidth

\* cast(T, cast(S, v)) has type T and the value of v, for the integer
\* types T for which Covered(T) holds.
RoundTrips(Covered(_)) ==
  /\ \A i \in DOMAIN calls :
       LET c == calls[i]
           v == c.args[1]
       IN (/\ c.fn = "cast" /\ isaIntegerType(v.ty) /\ Covered(v.ty)
           /\ WidensTo(v.ty, c.ty))
            => c.ok /\ c.ret.ty = c.ty
  /\ \A i \in DOMAIN calls :
       i > 1 =>
         LET c1 == calls[i - 1]
             c2 == calls[i]
             v == c1.args[1]
         IN (/\ c1.fn = "cast" /\ c2.fn = "cast"
             /\ isaIntegerType(v.ty) /\ Covered(v.ty)
             /\ WidensTo(v.ty, c1.ty)
             /\ c2.args[1] = c1.ret /\ c2.ty = v.ty)
              => c2.ok /\ c2.ret.ty = v.ty /\ c2.ret.val = v.val

AnyIntegerType(T) == TRUE
NotSigned1Bit(T) == T.width = 1 => isSignlessInteger(T)

C7_SignlessUnsignedRoundTrip ==
  /\ \A i \in DOMAIN calls :
       LET c == calls[i]
           v == c.args[1]
           elem == elementTypeWithVector(v.ty)
       IN c.fn = "castToSignless" =>
            /\ (isaIntegerType(elem) /\ ~isSignlessInteger(elem))
                 => (/\ c.ok
                     /\ c.ret.ty = getTypeWithVector(v.ty.lanes,
                                     IntegerType(c.n, "signless")))
            /\ isSignlessInteger(elem) => (~c.ok /\ c.end = c.base)
  /\ \A i \in DOMAIN calls :
       i > 1 =>
         LET c1 == calls[i - 1]
             c2 == calls[i]
             v == c1.args[1]
             elem == elementTypeWithVector(v.ty)
         IN (/\ c1.fn = "castToSignless" /\ c2.fn = "castToUnsigned"
             /\ isaIntegerType(elem) /\ ~isSignlessInteger(elem)
             /\ c1.n = elem.width /\ c2.n = elem.width
             /\ c2.args[1] = c1.ret)
              => /\ c2.ok
                 /\ c2.ret.ty = getTypeWithVector(v.ty.lanes,
                                  IntegerType(elem.width, "unsigned"))
                 /\ c2.ret.val = v.val

\* C7 witness: a vector of signed 8-bit lanes went through castToSignless
\* and castToUnsigned.
C7_Witness ==
  \E i \in DOMAIN calls :
    /\ i > 1
    /\ LET c1 == calls[i - 1]
           c2 == calls[i]
       IN /\ c1.fn = "castToSignless" /\ c2.fn = "castToUnsigned"
          /\ c1.args[1].ty = getTypeWithVector(VecLanes, IntegerType(8, "signed"))
          /\ c1.n = 8 /\ c2.n = 8 /\ c2.ok
          /\ c2.args[1] = c1.ret
          /\ c2.ret.val = c1.args[1].val

\* C9: when the type of the source equals destType, cast returns the very
\* same handle and appends no node, before any other rule (index
\* normalisation, boolean handling) applies.
C9_IdentityCast ==
  \A i \in DOMAIN calls :
    LET c == calls[i]
    IN (c.fn \in {"cast", "castToIndex"} /\ c.args[1].ty = c.ty)
         => c.ok /\ c.ret = c.args[1] /\ c.end = c.base

\* C9 witness: an index value has been cast to index.
C9_Witness ==
  \E i \in DOMAIN calls :
    LET c == calls[i]
    IN /\ c.fn = "cast" /\ c.ok
       /\ c.args[1].ty = IndexType /\ c.ty = IndexType
       /\ c.ret = c.args[1]

\* C10: for every supported scalar source (boolean, float, signed, signless
\* or unsigned integer of any width) cast to index, and castToIndex, end
\* with a conversion to index: the returned value is index-typed.
C10_IndexDestinationIsIndexTyped ==
  \A i \in DOMAIN calls :
    LET c == calls[i]
        src == c.args[1]
    IN (/\ c.fn \in {"cast", "castToIndex"} /\ c.ty = IndexType
        /\ (isaIntegerType(src.ty) \/ isaFloatType(src.ty)))
         => /\ c.ok
            /\ c.ret.ty = IndexType
            /\ ops[c.end].op = "arith.index_cast"

IsStatic(shape) == \A i \in 1..Len(shape) : shape[i] # kDynamic

I8 == IntegerType(8, "signless")

\* Bytes a static layout of S elements of bw bits needs once padded to a
\* multiple of VL elements.
PaddedBytes(S, bw, VL) == ((S * bw + (VL - (S % VL)) * bw) + 7) \div 8

\* A call of alignedAllocWithSimdPadding on a fully static identity layout
\* of integer or float elements, without dynamic symbols, simdUnroll >= 1.
StaticPaddingCall(c) ==
  /\ c.fn = "alignedAllocWithSimdPadding"
  /\ c.args = <<>>
  /\ c.ty.identity
  /\ IsStatic(c.ty.shape)
  /\ c.ty.elem.lanes = 0
  /\ c.ty.elem.kind \in {"int", "float"}
  /\ c.n >= 1

\* C2: for a fully static identity layout of S elements of bw bits and
\* VL = machine vector length * simdUnroll: when S % VL # 0 the call
\* allocates one byte buffer of exactly ceil((S*bw + (VL - S % VL)*bw) / 8)
\* bytes and returns a zero-offset view of the layout over it; when
\* S % VL = 0 it allocates the layout itself, with no byte buffer and no
\* view.
C2_StaticPaddedByteSize ==
  \A i \in DOMAIN calls :
    LET c == calls[i]
        S == SeqProduct(c.ty.shape)
        bw == c.ty.elem.width
        VL == (IF c.x.vmsLength > 1 THEN c.x.vmsLength ELSE 1) * c.n
        nodes == NodesOf(c)
    IN StaticPaddingCall(c) =>
         /\ c.ok
         /\ IF S % VL # 0
              THEN /\ OpsOf(c) = <<"memref.alloc", "arith.constant",
                                   "memref.view">>
                   /\ nodes[1].ty = MemRefType(<<PaddedBytes(S, bw, VL)>>, I8)
                   /\ nodes[1].val.elems = PaddedBytes(S, bw, VL)
                   /\ nodes[1].args = <<>>
                   /\ nodes[2].val = {}
                   /\ nodes[3].args = <<c.base + 1, c.base + 2>>
                   /\ nodes[3].ty = c.ty
                   /\ c.ret.id = c.end
              ELSE /\ OpsOf(c) = <<"memref.alloc">>
                   /\ nodes[1].ty = c.ty
                   /\ nodes[1].val.elems = S
                   /\ c.ret.id = c.end

\* C2 witness: 10 float32 elements, simdUnroll 1, machine vector length 4:
\* a 48-byte buffer has been allocated.
C2_Witness ==
  \E i \in DOMAIN calls :
    LET c == calls[i]
    IN /\ StaticPaddingCall(c) /\ c.ok
       /\ c.ty.shape = <<10>> /\ c.ty.elem = FloatType(32)
       /\ c.n = 1 /\ c.x.vmsLength = 4
       /\ NodesOf(c)[1].op = "memref.alloc"
       /\ NodesOf(c)[1].ty = MemRefType(<<48>>, I8)

\* The run-time extents the dimension list describes.
DimValues(dims) == [i \in 1..Len(dims) |-> dims[i].n]

\* reshapeToFlat flattening every dimension of an identity-layout buffer of
\* rank >= 1, then reshapeFromFlat of its result with the same dimension
\* list and the original layout.
FlatRoundTrip ==
  /\ Len(calls) = 2
  /\ calls[1].fn = "reshapeToFlat"
  /\ calls[1].n = 0 - 1
  /\ calls[2].fn = "reshapeFromFlat"
  /\ calls[2].x.dims = calls[1].x.dims
  /\ calls[2].ty = calls[1].args[1].ty

\* C8: reshapeToFlat of all dimensions followed by reshapeFromFlat with the
\* same dims and the original layout returns a value of the original rank
\* and extents, and the shape descriptor of the second reshape holds
\* dims[0..R-1] in order.
C8_FlatRoundTripShape ==
  /\ (/\ calls # <<>>
      /\ calls[1].fn = "reshapeToFlat"
      /\ calls[1].n = 0 - 1
      /\ calls[1].args[1].ty.identity
      /\ Len(calls[1].args[1].ty.shape) >= 1
      /\ Len(calls[1].x.dims) = Len(calls[1].args[1].ty.shape))
       => /\ calls[1].ok
          /\ Len(calls[1].ret.ty.shape) = 1
          /\ calls[1].ret.val.elems = calls[1].args[1].val.elems
  /\ FlatRoundTrip =>
    LET orig == calls[1].args[1]
        dims == calls[1].x.dims
        R == Len(dims)
        c == calls[2]
        nodes == NodesOf(c)
        descriptor == nodes[1]
    IN /\ c.ok
       /\ c.ret.ty = orig.ty
       /\ Len(c.ret.ty.shape) = R
       /\ c.ret.val.shape = orig.val.shape
       /\ c.ret.val.elems = orig.val.elems
       /\ descriptor.op = "memref.alloc"
       /\ descriptor.ty = MemRefType(<<R>>, IndexType)
       /\ ops[c.end].op = "memref.reshape"
       /\ ops[c.end].args = <<calls[1].ret.id, c.base + 1>>
       /\ LoadShape(ops, c.base + 1, R) = DimValues(dims)
       /\ \A d \in 0..(R - 1) : Cardinality(StoresTo(ops, c.base + 1, d)) = 1

\* C8 witness: a rank-2 buffer with one static and one dynamic extent of
\* different sizes has made the round trip.
C8_Witness ==
  /\ FlatRoundTrip
  /\ calls[2].ok
  /\ calls[1].args[1].ty.shape = <<2, kDynamic>>
  /\ calls[1].args[1].val.shape = <<2, 3>>
  /\ calls[1].ret.val.shape = <<6>>
  /\ calls[2].ret.val.shape = <<2, 3>>

\* The sum of the lanes of an integer vector, as a number.
RECURSIVE LaneSum(_)
LaneSum(val) == IF val = <<>> THEN 0 ELSE ToNat(Head(val)) + LaneSum(Tail(val))

\* A w-bit lane holding n modulo 2^w.
WrappedLane(n, w) == IF w < SmallBits THEN FromNat(n % (2^w), w)
                     ELSE FromNat(n, w)

\* multiReduction on N = k * machineVL (k >= 1) vectors of integer lanes,
\* each of length machineVL.
WellFormedReduction(c) ==
  /\ c.fn = "multiReduction"
  /\ c.n >= 1
  /\ \A i \in 1..c.n :
       /\ c.args[i].ty.lanes = getMachineVectorLength(c.x.vmsLength)
       /\ c.args[i].ty = c.args[1].ty
  /\ isIntegerWithVector(c.args[1].ty)
  /\ c.n % getMachineVectorLength(c.x.vmsLength) = 0

\* C3: output vector i of multiReduction holds the horizontal sums of the
\* input vectors of group i: lane j of output i is the sum (in the lanes'
\* width) of all lanes of input vector i * machineVL + j, and of no lane of
\* any other vector; there is one output per group.
C3_MultiReductionGroupSums ==
  \A n \in DOMAIN calls :
    LET c == calls[n]
        machineVL == getMachineVectorLength(c.x.vmsLength)
        w == BitsOf(elementTypeWithVector(c.args[1].ty))
    IN WellFormedReduction(c) =>
         /\ c.ok
         /\ Len(c.x.out) = c.n \div machineVL
         /\ \A i \in 0..((c.n \div machineVL) - 1) :
              /\ c.x.out[i + 1].ty = c.args[1].ty
              /\ \A j \in 0..(machineVL - 1) :
                   c.x.out[i + 1].val[j + 1]
                     = WrappedLane(LaneSum(c.args[i * machineVL + j + 1].val),
                                   w)

\* C3 witness: eight vectors of four 8-bit lanes whose lane sums wrap have
\* been reduced to two vectors.
C3_Witness ==
  \E n \in DOMAIN calls :
    LET c == calls[n]
    IN /\ WellFormedReduction(c) /\ c.ok
       /\ c.n = 8 /\ c.x.vmsLength = 4
       /\ c.args[1].ty = getTypeWithVector(4, IntegerType(8, "unsigned"))
       /\ LaneSum(c.args[6].val) > 255
       /\ Len(c.x.out) = 2
       /\ c.x.out[2].val[2] = FromNat(LaneSum(c.args[6].val) % 256, 8)

\* The lanes of a content (a scalar has one).
LanesOf(ty, val) == IF ty.lanes = 0 THEN <<val>> ELSE val

Defined(ty, val) ==
  \A k \in 1..Len(LanesOf(ty, val)) : LanesOf(ty, val)[k] # Poison

\* A cast call of a non-boolean integer or index value to the 1-bit
\* boolean type of the same vector shape.
IntToBoolCall(c) ==
  /\ c.fn = "cast"
  /\ isIntegerWithVector(c.args[1].ty)
  /\ BitsOf(elementTypeWithVector(c.args[1].ty)) > 1
  /\ Defined(c.args[1].ty, c.args[1].val)
  /\ c.ty = BoolTypeLike(c.args[1].ty)

\* C11: cast of a non-boolean integer value v (signless, signed, unsigned
\* or index) to the 1-bit boolean type yields true iff v # 0; the result is
\* the not-equal comparison of the (signless-reinterpreted) source with a
\* zero constant of that type, and no truncation is emitted.
C11_IntToBoolComparesWithZero ==
  \A i \in DOMAIN calls :
    LET c == calls[i]
        src == c.args[1]
        elem == elementTypeWithVector(src.ty)
        cmp == ops[c.end]
        lhs == ops[cmp.args[1]]
        zero == ops[cmp.args[2]]
        signlessType ==
          getTypeWithVector(src.ty.lanes, IntegerType(BitsOf(elem), "signless"))
    IN IntToBoolCall(c) =>
         /\ c.ok
         /\ c.ret.ty = c.ty
         /\ c.ret.id = c.end
         /\ \A k \in 1..Len(LanesOf(src.ty, src.val)) :
              LanesOf(c.ret.ty, c.ret.val)[k]
                = (IF LanesOf(src.ty, src.val)[k] # {} THEN {0} ELSE {})
         /\ cmp.op = "arith.cmpi ne"
         /\ \A k \in 1..Len(OpsOf(c)) : OpsOf(c)[k] # "arith.trunci"
         /\ zero.op = IF src.ty.lanes = 0 THEN "arith.constant"
                      ELSE "vector.splat"
         /\ zero.ty = signlessType
         /\ \A k \in 1..Len(LanesOf(zero.ty, zero.val)) :
              LanesOf(zero.ty, zero.val)[k] = {}
         /\ cmp.args[2] > c.base
         /\ IF isSignlessInteger(elem) THEN cmp.args[1] = src.id
            ELSE /\ cmp.args[1] > c.base
                 /\ lhs.ty = signlessType
                 /\ lhs.op = (IF elem.kind = "index" THEN "arith.index_cast"
                              ELSE Reinterpret)

\* C11 witness: the unsigned 8-bit value 128, whose lowest bit is 0, has
\* been cast to boolean and the result is true.
C11_Witness ==
  \E i \in DOMAIN calls :
    LET c == calls[i]
    IN /\ IntToBoolCall(c) /\ c.ok
       /\ c.args[1].ty = IntegerType(8, "unsigned")
       /\ c.args[1].val = {7}
       /\ c.ret.val = {0}

\* The product of the static extents of a shape.
RECURSIVE StaticProduct(_)
StaticProduct(shape) ==
  IF shape = <<>> THEN 1
  ELSE (IF Head(shape) = kDynamic THEN 1 ELSE Head(shape))
         * StaticProduct(Tail(shape))

\* The product of the run-time values of a list of dynamic symbols.
RECURSIVE SymbolProduct(_)
SymbolProduct(q) ==
  IF q = <<>> THEN 1 ELSE ToNat(Head(q).val) * SymbolProduct(Tail(q))

ArgIds(c) == [k \in 1..Len(c.args) |-> c.args[k].id]

\* A call of alignedAllocWithSimdPadding on an identity layout of integer
\* or float elements with at least one dynamic extent, one symbol per
\* dynamic extent, simdUnroll >= 1.
DynamicPaddingCall(c) ==
  /\ c.fn = "alignedAllocWithSimdPadding"
  /\ c.ty.identity
  /\ NumDynamic(c.ty.shape) >= 1
  /\ Len(c.args) = NumDynamic(c.ty.shape)
  /\ c.ty.elem.lanes = 0
  /\ c.ty.elem.kind \in {"int", "float"}
  /\ c.n >= 1

\* C12: for an identity layout with a dynamic extent: when staticSize % VL
\* = 0 the layout itself is allocated (no byte buffer, no view); otherwise
\* paddingSize = VL and a dynamically sized byte buffer of
\* ceil((staticSize*bw*dynSize + VL*bw) / 8) bytes is allocated, and a
\* zero-offset view of the original layout over it is returned.
C12_DynamicPaddedByteSize ==
  \A i \in DOMAIN calls :
    LET c == calls[i]
        staticSize == StaticProduct(c.ty.shape)
        dynSize == SymbolProduct(c.args)
        bw == c.ty.elem.width
        VL == (IF c.x.vmsLength > 1 THEN c.x.vmsLength ELSE 1) * c.n
        bytes == (staticSize * bw * dynSize + VL * bw + 7) \div 8
        nodes == NodesOf(c)
    IN DynamicPaddingCall(c) =>
         /\ c.ok
         /\ c.ret.id = c.end
         /\ c.ret.ty = c.ty
         /\ IF staticSize % VL = 0
              THEN /\ OpsOf(c) = <<"memref.alloc">>
                   /\ nodes[1].ty = c.ty
                   /\ nodes[1].args = ArgIds(c)
              ELSE /\ OpsOf(c) = <<"index_expr.value", "memref.alloc",
                                   "arith.constant", "memref.view">>
                   /\ ToNat(nodes[1].val) = bytes
                   /\ nodes[2].ty = MemRefType(<<kDynamic>>, I8)
                   /\ nodes[2].args = <<c.base + 1>>
                   /\ nodes[2].val.elems = bytes
                   /\ nodes[3].val = {}
                   /\ nodes[4].ty = c.ty
                   /\ nodes[4].args = <<c.base + 2, c.base + 3>> \o ArgIds(c)

\* C12 witness: a ? x 3 layout of float32 with 3 rows at run time and
\* VL = 4 has been given a byte buffer of 3*4*3 + 4*4 = 52 bytes.
C12_Witness ==
  \E i \in DOMAIN calls :
    LET c == calls[i]
    IN /\ DynamicPaddingCall(c) /\ c.ok
       /\ c.ty.shape = <<kDynamic, 3>> /\ c.ty.elem = FloatType(32)
       /\ SymbolProduct(c.args) = 3
       /\ c.n = 1 /\ c.x.vmsLength = 4
       /\ NodesOf(c)[2].op = "memref.alloc"
       /\ NodesOf(c)[2].val.elems = 52

\* An accepted call of alignedAllocWithSimdPadding with one symbol per
\* dynamic extent.
AcceptedPaddingCall(c) ==
  /\ c.fn = "alignedAllocWithSimdPadding"
  /\ c.ok
  /\ Len(c.args) = NumDynamic(c.ty.shape)

\* The nodes of a call that allocate a buffer.
AllocNodes(c) ==
  {k \in 1..Len(NodesOf(c)) : NodesOf(c)[k].op = "memref.alloc"}

\* The number of elements of the given bit width an allocation holds.
Capacity(node, type) ==
  IF node.ty = type THEN node.val.elems
  ELSE (node.val.elems * BitsOf(node.ty.elem)) \div type.elem.width

\* C13: every accepted call allocates one buffer, which holds at least
\* roundUp(T, VL) elements, T the run-time element count of the layout and
\* VL the machine vector length times simdUnroll; the returned value has
\* the layout's type and exposes exactly the T elements of its run-time
\* shape.
C13_PaddedBufferCoversWholeVectors ==
  \A i \in DOMAIN calls :
    LET c == calls[i]
        T == StaticProduct(c.ty.shape) * SymbolProduct(c.args)
        VL == (IF c.x.vmsLength > 1 THEN c.x.vmsLength ELSE 1) * c.n
        roundUp == ((T + VL - 1) \div VL) * VL
    IN AcceptedPaddingCall(c) =>
         /\ Cardinality(AllocNodes(c)) = 1
         /\ \A k \in AllocNodes(c) :
              Capacity(NodesOf(c)[k], c.ty) >= roundUp
         /\ c.ret.ty = c.ty
         /\ c.ret.val.shape =
              RuntimeShape(c.ty.shape, SymbolValues(c.args))
         /\ SeqProduct(c.ret.val.shape) = T

\* C13 witness: a 3 x ? layout of 4-bit integers with 3 columns at run
\* time and VL = 8 (T = 9, roundUp = 16) lies in a buffer of 9 bytes.
C13_Witness ==
  \E i \in DOMAIN calls :
    LET c == calls[i]
    IN /\ AcceptedPaddingCall(c)
       /\ c.ty.shape = <<3, kDynamic>>
       /\ c.ty.elem = IntegerType(4, "signless")
       /\ SymbolProduct(c.args) = 3
       /\ c.n = 2 /\ c.x.vmsLength = 4
       /\ \E k \in AllocNodes(c) : NodesOf(c)[k].val.elems = 9
       /\ c.ret.val.shape = <<3, 3>>

\* The first k entries of a list.
Prefix(q, k) == [j \in 1..(IF k < Len(q) THEN k ELSE Len(q)) |-> q[j]]

\* C14: whenever getStaticAndDynamicMemSize returns, staticSize is the
\* product of the static extents (1 when there are none), dynSize is the
\* product of the symbols of the dynamic extents in ascending dimension
\* order (the literal 1 when there are none), and the returned flag is
\* true if and only if the layout has no dynamic extent.
C14_MemSizeProductsAndStaticFlag ==
  \A i \in DOMAIN calls :
    LET c == calls[i]
        D == NumDynamic(c.ty.shape)
    IN (c.fn = "getStaticAndDynamicMemSize" /\ c.ok) =>
         /\ c.x.staticSize = StaticProduct(c.ty.shape)
         /\ c.x.dynSize.n = SymbolProduct(Prefix(c.args, D))
         /\ c.x.dynSize.lit <=> (D = 0)
         /\ c.x.staticShape <=> (D = 0)

\* C15: getStaticAndDynamicMemSize aborts whenever the number of dynamic
\* symbols differs from the number of dynamic extents of the layout, be
\* there too few or too many symbols.
C15_SymbolCountMismatchAborts ==
  \A i \in DOMAIN calls :
    LET c == calls[i]
    IN (c.fn = "getStaticAndDynamicMemSize"
          /\ Len(c.args) # NumDynamic(c.ty.shape)) => ~c.ok

\* The alignment attribute computeAlignment gives for a request.
AlignmentFor(requested) ==
  IF requested > gDefaultAllocAlign THEN requested ELSE gDefaultAllocAlign

\* A call that has emitted its one allocation without any alignment
\* attribute.
AllocatesUnaligned(c) ==
  /\ c.ok /\ c.end = c.base + 1 /\ c.ret.id = c.end
  /\ ops[c.end].ty = c.ty
  /\ ops[c.end].attr = <<>>

\* A call that has emitted its one allocation with the alignment
\* attribute computed from the request.
AllocatesAligned(c) ==
  /\ c.ok /\ c.end = c.base + 1 /\ c.ret.id = c.end
  /\ ops[c.end].ty = c.ty
  /\ ops[c.end].attr = <<AlignmentFor(c.x.alignment)>>

\* C16 as claimed: each of alloc, alignedAlloc, alloca and alignedAlloca
\* allocates a rank-0 buffer without alignment attribute and a buffer of
\* rank >= 1 with the attribute max(requested, default alignment).
C16_EveryAllocAlignsRankAbove0 ==
  \A i \in DOMAIN calls :
    LET c == calls[i]
    IN c.fn \in AllocFns =>
         IF Len(c.ty.shape) = 0 THEN AllocatesUnaligned(c)
         ELSE AllocatesAligned(c)

\* C16 amended: alignedAlloc and alignedAlloca allocate a rank-0 buffer
\* without alignment attribute and a buffer of rank >= 1 with the attribute
\* max(requested, default alignment); alloc and alloca take no alignment
\* and attach no alignment attribute at any rank. alloc and alignedAlloc
\* emit memref.alloc, alloca and alignedAlloca memref.alloca.
C16_AlignedAllocsAlignRankAbove0 ==
  \A i \in DOMAIN calls :
    LET c == calls[i]
    IN c.fn \in AllocFns =>
         /\ IF c.fn \in {"alignedAlloc", "alignedAlloca"}
                 /\ Len(c.ty.shape) > 0
              THEN AllocatesAligned(c)
            ELSE AllocatesUnaligned(c)
         /\ ops[c.end].op = (IF c.fn \in {"alloc", "alignedAlloc"}
                               THEN "memref.alloc" ELSE "memref.alloca")

\* C16 witness: alignedAlloca of a rank-1 buffer with requested alignment
\* 8 has attached the alignment 16.
C16_Witness ==
  \E i \in DOMAIN calls :
    LET c == calls[i]
    IN /\ c.fn = "alignedAlloca" /\ c.ok
       /\ Len(c.ty.shape) = 1
       /\ c.x.alignment = 8
       /\ ops[c.end].op = "memref.alloca"
       /\ ops[c.end].attr = <<16>>

\* Entry i of the output of an addOffsetToLeastSignificant call is the
\* result of one addition of indices[i] and offsets[j].
IsSumOf(c, i, j) ==
  LET e == c.x.computedIndices[i]
  IN /\ e.id \in (c.base + 1)..c.end
     /\ ops[e.id].op = "arith.addi"
     /\ {ops[e.id].args[1], ops[e.id].args[2]}
          = {c.args[i].id, c.x.offsets[j].id}
     /\ e.ty = IndexType
     /\ ToNat(e.val) = ToNat(c.args[i].val) + ToNat(c.x.offsets[j].val)

\* C17: for an index list of rank R and an offset list of rank K <= R,
\* addOffsetToLeastSignificant leaves exactly R entries in the output list,
\* whatever it held before: entry i is indices[i] for i < R-K and the sum
\* of indices[i] and offsets[i-(R-K)] for i >= R-K, one addition per
\* offset; for K > R it aborts with the output list untouched and nothing
\* emitted.
C17_OffsetsAddedToTrailingIndices ==
  \A n \in DOMAIN calls :
    LET c == calls[n]
        R == Len(c.args)
        K == Len(c.x.offsets)
        out == c.x.computedIndices
    IN c.fn = "addOffsetToLeastSignificant" =>
         IF K <= R
           THEN /\ c.ok
                /\ Len(out) = R
                /\ c.end = c.base + K
                /\ \A i \in 1..R :
                     IF i <= R - K THEN out[i] = c.args[i]
                     ELSE IsSumOf(c, i, i - (R - K))
         ELSE /\ ~c.ok
              /\ out = c.x.before
              /\ c.end = c.base

\* C17 witness: indices (1, 5, 1) and offsets (5, 1) have replaced a
\* non-empty output list by (1, 10, 2).
C17_Witness ==
  \E n \in DOMAIN calls :
    LET c == calls[n]
        out == c.x.computedIndices
    IN /\ c.fn = "addOffsetToLeastSignificant" /\ c.ok
       /\ Len(c.args) = 3 /\ Len(c.x.offsets) = 2
       /\ c.x.before # <<>>
       /\ [i \in 1..3 |-> ToNat(c.args[i].val)] = <<1, 5, 1>>
       /\ [i \in 1..2 |-> ToNat(c.x.offsets[i].val)] = <<5, 1>>
       /\ [i \in 1..3 |-> ToNat(out[i].val)] = <<1, 10, 2>>

\* The product of the run-time values of the dimensions lo..Len(dims).
RECURSIVE DimProduct(_, _)
DimProduct(dims, lo) ==
  IF lo > Len(dims) THEN 1 ELSE dims[lo].n * DimProduct(dims, lo + 1)

\* The extent of the flattened dimensions lo..Len(shape): dynamic if one
\* of them is, their product otherwise.
RECURSIVE FlatExtent(_, _)
FlatExtent(shape, lo) ==
  IF lo > Len(shape) THEN 1
  ELSE IF shape[lo] = kDynamic \/ FlatExtent(shape, lo + 1) = kDynamic
    THEN kDynamic
  ELSE shape[lo] * FlatExtent(shape, lo + 1)

\* A reshapeToFlat call on an identity-layout buffer with one dimension
\* expression per extent.
FlattenCall(c) ==
  /\ c.fn = "reshapeToFlat"
  /\ c.args[1].ty.identity
  /\ Len(c.x.dims) = Len(c.args[1].ty.shape)

\* C18: with R the rank of the input and F = dimsToFlatten (R for -1):
\* for F in [1, R] the returned value has rank R-F+1, its first R-F extents
\* are those of the input and its last is the product of the last F
\* extents (dynamic if a factor is dynamic), at run time as in the type,
\* and flattenedSize holds that product; for F = 1 the input handle itself
\* is returned and neither a buffer is allocated nor a reshape emitted; F
\* outside [1, R] aborts.
C18_ReshapeToFlatShape ==
  \A i \in DOMAIN calls :
    LET c == calls[i]
        input == c.args[1]
        shape == input.ty.shape
        R == Len(shape)
        F == IF c.n = 0 - 1 THEN R ELSE c.n
        flat == DimProduct(c.x.dims, R - F + 1)
    IN FlattenCall(c) =>
         IF F >= 1 /\ F <= R
           THEN /\ c.ok
                /\ c.ret.ty.elem = input.ty.elem
                /\ c.ret.ty.shape
                     = SubSeq(shape, 1, R - F) \o <<FlatExtent(shape, R - F + 1)>>
                /\ c.ret.val.shape
                     = SubSeq(DimValues(c.x.dims), 1, R - F) \o <<flat>>
                /\ ToNat(c.x.flattenedSize.val) = flat
                /\ c.x.flattenedSize.ty = IndexType
                /\ IF F = 1
                     THEN /\ c.ret = input
                          /\ \A k \in 1..Len(OpsOf(c)) :
                               OpsOf(c)[k] \notin
                                 {"memref.alloc", "memref.reshape"}
                   ELSE /\ c.ret.id = c.end
                        /\ ops[c.end].op = "memref.reshape"
                        /\ ops[c.end].args[1] = input.id
         ELSE ~c.ok

\* C18 witness: a 2 x ? x 3 buffer with 3 as its dynamic extent, flattened
\* over its last two dimensions, has become 2 x ? (2 x 9 at run time) with
\* flattenedSize 9.
C18_Witness ==
  \E i \in DOMAIN calls :
    LET c == calls[i]
    IN /\ FlattenCall(c) /\ c.ok
       /\ c.args[1].ty.shape = <<2, kDynamic, 3>>
       /\ c.n = 2
       /\ c.ret.ty.shape = <<2, kDynamic>>
       /\ c.ret.val.shape = <<2, 9>>
       /\ ToNat(c.x.flattenedSize.val) = 9

\* C19: for a list of output extents of rank R >= 1, reinterpretCast emits
\* one view of the input with offset 0, sizes equal to the extents, and
\* strides with stride[R-1] = 1 and stride[i] = stride[i+1] * extent[i+1];
\* a stride is static (a literal) exactly when all extents to its right
\* are literals, and then holds its value.
C19_ReinterpretCastRowMajorStrides ==
  \A n \in DOMAIN calls :
    LET c == calls[n]
        dims == c.x.outputDims
        R == Len(dims)
        node == ops[c.end]
        strides == node.val.strides
    IN (c.fn = "reinterpretCast" /\ R >= 1) =>
         /\ c.ok
         /\ c.ret.id = c.end
         /\ node.op = "memref.reinterpret_cast"
         /\ node.args[1] = c.args[1].id
         /\ node.attr[1] = 0
         /\ node.val.offset = 0
         /\ node.val.shape = DimValues(dims)
         /\ node.ty.shape = [i \in 1..R |-> IEGetShape(dims[i])]
         /\ node.ty.elem = c.args[1].ty.elem
         /\ Len(strides) = R
         /\ strides[R] = 1
         /\ \A i \in 1..(R - 1) : strides[i] = strides[i + 1] * dims[i + 1].n
         /\ \A i \in 1..R :
              LET literal == \A k \in (i + 1)..R : dims[k].lit
              IN /\ node.attr[2][i] = IEGetShape(dims[i])
                 /\ node.attr[3][i] = IF literal THEN strides[i] ELSE kDynamic

\* C19 witness: the extents (2, ?, 3) with 3 as the dynamic extent have
\* given the strides (9, 3, 1), the first of them dynamic.
C19_Witness ==
  \E n \in DOMAIN calls :
    LET c == calls[n]
    IN /\ c.fn = "reinterpretCast" /\ c.ok
       /\ ops[c.end].ty.shape = <<2, kDynamic, 3>>
       /\ ops[c.end].val.strides = <<9, 3, 1>>
       /\ ops[c.end].attr = <<0, <<2, kDynamic, 3>>, <<kDynamic, 3, 1>>>>

\* Every group of the grouping is non-empty and names dimensions of the
\* shape only.
WellFormedGrouping(shape, reassociation) ==
  \A r \in 1..Len(reassociation) :
    /\ reassociation[r] # <<>>
    /\ \A k \in 1..Len(reassociation[r]) :
         reassociation[r][k] \in 0..(Len(shape) - 1)

\* The collapsed extent of a group: dynamic if one of the grouped extents
\* is dynamic, wherever in the group, and their product otherwise.
CollapsedExtent(shape, group) ==
  IF \E k \in 1..Len(group) : shape[group[k] + 1] = kDynamic THEN kDynamic
  ELSE SeqProduct([k \in 1..Len(group) |-> shape[group[k] + 1]])

\* C20: collapseShape of an identity-layout input returns a value whose
\* rank is the number of groups and whose extent per group is the product
\* of the grouped input extents when all are static and dynamic when one
\* of them is dynamic, at whatever position of the group; a non-identity
\* input layout aborts.
C20_CollapseShapeExtents ==
  \A n \in DOMAIN calls :
    LET c == calls[n]
        input == c.args[1]
        groups == c.x.reassociation
    IN c.fn = "collapseShape" =>
         /\ ~input.ty.identity => ~c.ok
         /\ (input.ty.identity
               /\ WellFormedGrouping(input.ty.shape, groups)) =>
              /\ c.ok
              /\ c.ret.id = c.end
              /\ ops[c.end].op = "memref.collapse_shape"
              /\ ops[c.end].args = <<input.id>>
              /\ c.ret.ty.elem = input.ty.elem
              /\ Len(c.ret.ty.shape) = Len(groups)
              /\ \A r \in 1..Len(groups) :
                   c.ret.ty.shape[r] = CollapsedExtent(input.ty.shape, groups[r])

\* C20 witness: a 2 x 3 x ? buffer collapsed by the groups (0) and (1, 2)
\* has become 2 x ?.
C20_Witness ==
  \E n \in DOMAIN calls :
    LET c == calls[n]
    IN /\ c.fn = "collapseShape" /\ c.ok
       /\ c.args[1].ty.shape = <<2, 3, kDynamic>>
       /\ c.x.reassociation = <<<<0>>, <<1, 2>>>>
       /\ c.ret.ty.shape = <<2, kDynamic>>

\* C21: collapseShape aborts, with no node created, for every grouping
\* that holds an empty group or an index outside [0, inputRank), wherever
\* the index stands in its group, also behind the index of a dynamic
\* extent.
C21_IllFormedGroupingAborts ==
  \A n \in DOMAIN calls :
    LET c == calls[n]
    IN (c.fn = "collapseShape"
          /\ ~WellFormedGrouping(c.args[1].ty.shape, c.x.reassociation)) =>
         /\ ~c.ok
         /\ c.end = c.base

\* The value operands of a call that must be of one type: all operands of
\* an operation of two operands and of fma, the last two of select.
TypedOperands(c) ==
  IF c.fn = "select" THEN <<c.args[2], c.args[3]>> ELSE c.args

SameOperandTypes(c) ==
  \A j \in 1..Len(TypedOperands(c)), k \in 1..Len(TypedOperands(c)) :
    TypedOperands(c)[j].ty = TypedOperands(c)[k].ty

\* C22: every operation of two operands, fma and select abort without
\* appending a node when the operands differ in element kind, width or
\* vector shape.
C22_OperandTypeMismatchAborts ==
  \A n \in DOMAIN calls :
    LET c == calls[n]
    IN (c.fn \in BinaryFns \cup {"add", "mul", "fma", "select"}
          /\ ~SameOperandTypes(c)) =>
         /\ ~c.ok
         /\ c.end = c.base

\* The number a lane of element type t holds: read as unsigned for an
\* unsigned integer type, in two's complement for a signless or signed
\* integer type and for index.
NumberOf(v, t) ==
  IF isUnsignedInteger(t) THEN ToNat(v) ELSE SignedOf(v, BitsOf(t))

\* The smallest number of the element type, for which the division by -1
\* is not defined.
IsMinimum(v, t) == ~isUnsignedInteger(t) /\ v = {BitsOf(t) - 1}

\* What the operation fn is to give for the numbers x and y, as a number
\* (1 and 0 for the truth of a comparison).
Expected(fn, x, y) ==
  CASE fn = "div" -> TruncQuot(x, y)
    [] fn = "rem" -> x - TruncQuot(x, y) * y
    [] fn = "min" -> IF x < y THEN x ELSE y
    [] fn = "max" -> IF x < y THEN y ELSE x
    [] fn = "lt" -> IF x < y THEN 1 ELSE 0
    [] fn = "le" -> IF x <= y THEN 1 ELSE 0
    [] fn = "gt" -> IF x > y THEN 1 ELSE 0
    [] fn = "ge" -> IF x >= y THEN 1 ELSE 0

SignDependentFns == {"div", "rem", "min", "max", "lt", "le", "gt", "ge"}

\* A call of one of these operations on two integer or index operands of
\* one type.
SignDependentCall(c) ==
  /\ c.fn \in SignDependentFns
  /\ c.args[1].ty = c.args[2].ty
  /\ isIntegerWithVector(c.args[1].ty)

\* C23: on two operands of one integer type, scalar or vector, div, rem,
\* min, max, lt, le, gt and ge return in one node, lane by lane, the result
\* of the unsigned reading when the element type is unsigned and of the
\* two's-complement reading when it is signless, signed or index (division
\* by zero and of the minimum by -1 set aside); gt, ge, lt and le emit the
\* unsigned predicate exactly for an unsigned element type.
C23_UnsignedAndSignedVariants ==
  \A n \in DOMAIN calls :
    LET c == calls[n]
        ty == c.args[1].ty
        t == elementTypeWithVector(ty)
        a == LanesOf(ty, c.args[1].val)
        b == LanesOf(ty, c.args[2].val)
        isCmp == c.fn \in {"lt", "le", "gt", "ge"}
        r == LanesOf(c.ret.ty, c.ret.val)
    IN SignDependentCall(c) =>
         /\ c.ok
         /\ c.end = c.base + 1
         /\ c.ret.id = c.end
         /\ c.ret.ty = IF isCmp THEN BoolTypeLike(ty) ELSE ty
         /\ isCmp =>
              ops[c.end].op = "arith.cmpi "
                 \o (IF isUnsignedInteger(t) THEN "u" ELSE "s") \o c.fn
         /\ \A k \in 1..Len(a) :
              LET x == NumberOf(a[k], t)
                  y == NumberOf(b[k], t)
                  defined == c.fn \in {"div", "rem"} =>
                               /\ b[k] # {}
                               /\ ~(IsMinimum(a[k], t) /\ y = 0 - 1)
              IN defined =>
                   IF isCmp THEN ToNat(r[k]) = Expected(c.fn, x, y)
                   ELSE /\ r[k] # Poison
                        /\ NumberOf(r[k], t) = Expected(c.fn, x, y)

\* C23 witness: 200 / 3 on unsigned 8-bit integers has given 66 by an
\* unsigned division.
C23_Witness ==
  \E n \in DOMAIN calls :
    LET c == calls[n]
    IN /\ c.fn = "div" /\ c.ok
       /\ c.args[1].ty = IntegerType(8, "unsigned")
       /\ c.args[2].ty = IntegerType(8, "unsigned")
       /\ ToNat(c.args[1].val) = 200 /\ ToNat(c.args[2].val) = 3
       /\ ops[c.end].op = "arith.divui"
       /\ ToNat(c.ret.val) = 66


(***************************************************************************)
(* C24: negativeInfAttr / negativeInf and positiveInfAttr / positiveInf    *)
(* return negative and positive infinity for the 16-, 32- and 64-bit       *)
(* float types, and for an integer type of width w in {8, 16, 32, 64} the  *)
(* least and the greatest w-bit number: -2^(w-1) and 2^(w-1)-1 when signed *)
(* or signless, 0 and 2^w-1 when unsigned; every other integer width       *)
(* aborts.                                                                 *)
(***************************************************************************)
InfFns == {"negativeInfAttr", "negativeInf", "positiveInfAttr", "positiveInf"}

IsNegativeInfFn(fn) == fn \in {"negativeInfAttr", "negativeInf"}

\* The w-bit two's complement patterns of the four limits.
LeastSigned(w) == {w - 1}
GreatestSigned(w) == AllOnes(w) \ {w - 1}
LeastUnsigned(w) == {}
GreatestUnsigned(w) == AllOnes(w)

InfExpected(fn, type) ==
  IF type.kind = "float"
    THEN IF IsNegativeInfFn(fn) THEN NegInfinity ELSE PosInfinity
  ELSE IF type.sign = "unsigned"
    THEN IF IsNegativeInfFn(fn) THEN LeastUnsigned(type.width)
         ELSE GreatestUnsigned(type.width)
  ELSE IF IsNegativeInfFn(fn) THEN LeastSigned(type.width)
       ELSE GreatestSigned(type.width)

InfCallAsSpecified(c) ==
  /\ (isaFloatType(c.ty) /\ c.ty.width \in {16, 32, 64}
        => c.ok /\ c.ret.ty = c.ty /\ c.ret.val = InfExpected(c.fn, c.ty))
  /\ (isaIntegerType(c.ty) /\ c.ty.width \in {8, 16, 32, 64}
        => c.ok /\ c.ret.ty = c.ty /\ c.ret.val = InfExpected(c.fn, c.ty))
  /\ (isaIntegerType(c.ty) /\ c.ty.width \notin {8, 16, 32, 64} => ~c.ok)

C24_InfinitiesAndIntegerLimits ==
  \A i \in 1..Len(calls) :
    calls[i].fn \in InfFns => InfCallAsSpecified(calls[i])


(***************************************************************************)
(* C25: multiReduction discards what the output array held and returns     *)
(* exactly N / machineVL vectors, in group order (N vectors, each the      *)
(* corresponding input, when machineVL is 1); it aborts, with no node      *)
(* appended and no output vector produced, when N = 0, when the inputs'    *)
(* lane count differs from machineVL, when N is no multiple of machineVL,  *)
(* or when an input's lane count differs from the first one's.             *)
(***************************************************************************)
\* The numbers of the input vectors the value with this id is computed from.
RECURSIVE InputsBehind(_)
InputsBehind(id) ==
  IF id <= 0 THEN {0 - id}
  ELSE UNION {InputsBehind(ops[id].args[k]) : k \in DOMAIN ops[id].args}

ReductionRejects(c) ==
  LET N == Len(c.args)
      machineVL == getMachineVectorLength(c.x.vmsLength)
  IN \/ N = 0
     \/ c.args[1].ty.lanes # machineVL
     \/ N % machineVL # 0
     \/ \E i \in 1..N : c.args[i].ty.lanes # c.args[1].ty.lanes

ReductionOutputsInGroupOrder(c) ==
  LET N == Len(c.args)
      machineVL == getMachineVectorLength(c.x.vmsLength)
  IN /\ Len(c.x.out) = N \div machineVL
     /\ \A g \in 1..Len(c.x.out) :
          /\ InputsBehind(c.x.out[g].id)
               = ((g - 1) * machineVL + 1)..(g * machineVL)
          /\ \A k \in 1..Len(c.x.prev) : c.x.out[g] # c.x.prev[k]
          /\ machineVL = 1 => c.x.out[g] = c.args[g]

C25_MultiReductionOutputsAndAborts ==
  \A n \in DOMAIN calls :
    LET c == calls[n]
    IN c.fn = "multiReduction" =>
         IF ReductionRejects(c)
           THEN ~c.ok /\ c.end = c.base /\ c.x.out = c.x.prev
         ELSE c.ok /\ ReductionOutputsInGroupOrder(c)

\* C25 witness: eight vectors of four lanes have been reduced into an
\* output array that held an older vector; the second output comes from the
\* second group.
C25_Witness ==
  \E n \in DOMAIN calls :
    LET c == calls[n]
    IN /\ c.fn = "multiReduction" /\ c.ok
       /\ Len(c.args) = 8 /\ c.x.vmsLength = 4
       /\ Len(c.x.prev) = 1
       /\ Len(c.x.out) = 2
       /\ InputsBehind(c.x.out[2].id) = 5..8


(***************************************************************************)
(* C26: when the shape operand of a reshape is not a ranked tensor, is     *)
(* not of rank one, or has a non-constant length, inferShapes reports a    *)
(* diagnostic and stops there: the result type stays as it was, and        *)
(* nothing aborts.                                                         *)
(***************************************************************************)
ShapeError(operand1Ty) ==
  \/ ~operand1Ty.ranked
  \/ Len(operand1Ty.shape) # 1
  \/ operand1Ty.shape[1] < 0

C26_ShapeErrorStopsInference ==
  \A n \in DOMAIN calls :
    LET c == calls[n]
    IN c.fn = "inferShapes" /\ c.args[1].ranked /\ ShapeError(c.args[2]) =>
         /\ c.x.diagnostics # <<>>
         /\ c.ok
         /\ c.x.resultTy = c.x.before


(***************************************************************************)
(* C27: the program is append-only in construction order.  Every step      *)
(* keeps the nodes of earlier calls as they were, in place, and every      *)
(* operand of every node is a value of the caller (id <= 0) or the result  *)
(* of a node appended strictly earlier; so the unsigned add has its two    *)
(* signless reinterpretations in front of the extended add, and that in    *)
(* front of the reinterpretation back.                                     *)
(***************************************************************************)
EarlierNodesKept(before, after) ==
  /\ Len(after) >= Len(before)
  /\ \A k \in 1..Len(before) : after[k] = before[k]

OperandsAppendedEarlier(nodes) ==
  \A k \in 1..Len(nodes) :
    \A a \in 1..Len(nodes[k].args) : nodes[k].args[a] < k

\* The unsigned add of the call appended cast, cast, add, cast, each node
\* reading the ones in front of it.
UnsignedAddInOrder(nodes, c) ==
  c.fn = "add" /\ c.ok /\ isUnsignedIntegerWithVector(c.args[1].ty) =>
    /\ c.end = c.base + 4
    /\ [k \in 1..4 |-> nodes[c.base + k].op]
         = <<"builtin.unrealized_conversion_cast",
             "builtin.unrealized_conversion_cast",
             "arith.addui_extended.sum",
             "builtin.unrealized_conversion_cast">>
    /\ nodes[c.base + 1].args = <<c.args[1].id>>
    /\ nodes[c.base + 2].args = <<c.args[2].id>>
    /\ nodes[c.base + 3].args = <<c.base + 1, c.base + 2>>
    /\ nodes[c.base + 4].args = <<c.base + 3>>
    /\ c.ret.id = c.base + 4

AppendOnlyStep ==
  /\ EarlierNodesKept(ops, ops')
  /\ OperandsAppendedEarlier(ops')
  /\ \A n \in DOMAIN calls' : UnsignedAddInOrder(ops', calls'[n])

PowersOf2(k) == [i \in 1..k |-> 2^(i - 1)]

RECURSIVE LaneSumOfAll(_)
LaneSumOfAll(vecs) ==
  IF vecs = <<>> THEN 0
  ELSE LaneSum(Head(vecs).val) + LaneSumOfAll(Tail(vecs))

\* The shuffles appended from node number from + 1 on, in order.
ShufflesSince(from) ==
  SelectSeq([k \in 1..(Len(ops) - from) |-> ops[from + k]],
            LAMBDA node : node.op = "vector.shuffle")

StepLoopInvariant(c) ==
  LET x == c.x
      k == Len(x.steps)
      active == x.machineVL \div (2^k)
      group == SubSeq(x.inputVecArray, x.r + 1, x.r + x.machineVL)
      heads == SubSeq(x.tmpArray, x.r + 1, x.r + active)
      shuffles == ShufflesSince(x.from)
  IN /\ x.inputVecArray = c.args
     /\ x.steps = PowersOf2(k)
     /\ x.step = 2^k
     /\ x.r > 0 => /\ x.lastSteps = PowersOf2(Len(x.lastSteps))
                   /\ 2^Len(x.lastSteps) = x.machineVL
     /\ Len(x.outputVecArray) * x.machineVL = x.r
     /\ x.pc = "steps" =>
          /\ active * (2^k) = x.machineVL
          /\ x.numPairs = active \div 2
          /\ WrappedLane(LaneSumOfAll(heads), 8)
               = WrappedLane(LaneSumOfAll(group), 8)
          /\ k >= 1 =>
               /\ Len(shuffles) = 2 * active
               /\ \A p \in 0..(active - 1) :
                    /\ shuffles[2 * p + 1].args
                         = <<x.before[x.r + 2 * p + 1].id,
                             x.before[x.r + 2 * p + 2].id>>
                    /\ shuffles[2 * p + 2].args
                         = shuffles[2 * p + 1].args
     /\ x.pc = "done" =>
          LET R == multiReduction(Builder(<<>>), c.args, <<>>, x.vmsLength)
          IN x.outputVecArray = R.out /\ ops = R.B.ops

StepLoopHolds ==
  \A n \in DOMAIN calls :
    calls[n].fn = "multiReductionSteps" /\ calls[n].ok =>
      StepLoopInvariant(calls[n])

StepLoopRunning ==
  calls # <<>> /\ calls[1].fn = "multiReductionSteps"
    /\ calls[1].x.pc = "steps"

\* What is left to do: the vectors of the groups not yet finished, and
\* within the group the distance of step from machineVL.
StepsLeft(c) ==
  (c.n - c.x.r) * 2 * c.x.machineVL + (c.x.machineVL - c.x.step)

StepLoopAdvances ==
  StepLoopRunning =>
    /\ StepsLeft(calls'[1]) < StepsLeft(calls[1])
    /\ StepsLeft(calls'[1]) >= 0
    /\ calls'[1].x.pc \in {"steps", "done"}

C28_StepLoopHalvesAndKeepsSum ==
  []StepLoopHolds /\ [][StepLoopAdvances]_vars

\* C28 witness: in the second group of eight vectors of four lanes the
\* second iteration has just run: one active vector is left, the group's
\* lanes add up to more than 255.
C28_Witness ==
  /\ StepLoopRunning
  /\ calls[1].n = 8 /\ calls[1].x.machineVL = 4
  /\ calls[1].x.r = 4
  /\ calls[1].x.steps = <<1, 2>>
  /\ calls[1].x.numPairs = 0
  /\ LaneSumOfAll(SubSeq(calls[1].x.inputVecArray, 5, 8)) > 255


(***************************************************************************)
(* C29: for vectors of one power-of-two length VL and a power-of-two step  *)
(* in 1..VL/2, the mask of mergeHigh has VL entries, runs of step lanes    *)
(* taken in turn from lhs and from rhs (whose lanes count from VL) out of  *)
(* the lower halves 0..VL/2-1, and the mask of mergeLow the same out of    *)
(* the upper halves VL/2..VL-1; every entry is in 0..2*VL-1, and the two   *)
(* masks together name each of the 2*VL lanes exactly once.  Vectors of    *)
(* different lengths, or of a length that is no power of two, abort.       *)
(***************************************************************************)
IsPowerOfTwo(n) == \E k \in 0..SmallBits : 2^k = n

IsMergeCall(c) == c.fn \in {"mergeHigh", "mergeLow"}

MergeLengthsFit(c) ==
  /\ c.args[1].ty.lanes = c.args[2].ty.lanes
  /\ IsPowerOfTwo(c.args[1].ty.lanes)

MergeStepFits(c) ==
  /\ IsPowerOfTwo(c.n)
  /\ 1 <= c.n /\ 2 * c.n <= c.args[1].ty.lanes

\* Entry i (from 0) of the mask: run number i \div step, runs in turn from
\* lhs and rhs.
MaskEntry(half, VL, step, i) ==
  LET run == i \div step
  IN half + (IF run % 2 = 1 THEN VL ELSE 0) + (run \div 2) * step + (i % step)

MaskOf(c) == ops[c.end].attr

MergeMaskAsSpecified(c) ==
  LET VL == c.args[1].ty.lanes
      half == IF c.fn = "mergeHigh" THEN 0 ELSE VL \div 2
      mask == MaskOf(c)
  IN /\ c.ok
     /\ c.end = c.base + 1
     /\ ops[c.end].op = "vector.shuffle"
     /\ ops[c.end].args = <<c.args[1].id, c.args[2].id>>
     /\ Len(mask) = VL
     /\ \A i \in 0..(VL - 1) :
          /\ mask[i + 1] = MaskEntry(half, VL, c.n, i)
          /\ mask[i + 1] >= 0 /\ mask[i + 1] < 2 * VL
          /\ (mask[i + 1] % VL) \in
               (IF c.fn = "mergeHigh" THEN 0..(VL \div 2 - 1)
                ELSE (VL \div 2)..(VL - 1))

MasksSelectEachLaneOnce(c, d) ==
  LET VL == c.args[1].ty.lanes
      both == MaskOf(c) \o MaskOf(d)
  IN /\ Len(both) = 2 * VL
     /\ \A lane \in 0..(2 * VL - 1) :
          Cardinality({i \in 1..Len(both) : both[i] = lane}) = 1

C29_MergeMasks ==
  /\ \A n \in DOMAIN calls :
       LET c == calls[n]
       IN IsMergeCall(c) =>
            /\ ~MergeLengthsFit(c) => ~c.ok /\ c.end = c.base
            /\ MergeLengthsFit(c) /\ MergeStepFits(c) => MergeMaskAsSpecified(c)
  /\ \A n, m \in DOMAIN calls :
       LET c == calls[n]
           d == calls[m]
       IN /\ IsMergeCall(c) /\ IsMergeCall(d)
          /\ c.fn = "mergeHigh" /\ d.fn = "mergeLow"
          /\ MergeLengthsFit(c) /\ MergeStepFits(c)
          /\ d.args[1].ty = c.args[1].ty /\ d.args[2].ty = c.args[2].ty
          /\ d.n = c.n
          => MasksSelectEachLaneOnce(c, d)

\* C29 witness: mergeHigh and then mergeLow of two vectors of eight lanes
\* with step 2.
C29_Witness ==
  /\ Len(calls) = 2
  /\ calls[1].fn = "mergeHigh" /\ calls[2].fn = "mergeLow"
  /\ calls[1].ok /\ calls[2].ok
  /\ calls[1].n = 2 /\ calls[2].n = 2
  /\ MaskOf(calls[1]) = <<0, 1, 8, 9, 2, 3, 10, 11>>
  /\ MaskOf(calls[2]) = <<4, 5, 12, 13, 6, 7, 14, 15>>


(***************************************************************************)
(* C30: cast goes by the element types alone.  A cast of a vector to a     *)
(* vector type of the same shape appends the conversions the cast of a     *)
(* scalar of the source's element type to the destination's element type   *)
(* appends, fails exactly when that one fails, and returns a value of      *)
(* the destination type asked for; a vector source with a scalar           *)
(* destination, or the reverse, aborts.                                    *)
(***************************************************************************)
\* The scalar cast between the element types of vector cast c, on the
\* content of the vector's first lane.
ScalarTwin(c) ==
  cast(Builder(<<>>), elementTypeWithVector(c.ty),
       [id |-> c.args[1].id, ty |-> elementTypeWithVector(c.args[1].ty),
        val |-> c.args[1].val[1]])

\* The conversions among the operations: a splat only spreads a constant
\* over the lanes.
ConversionSteps(names) == SelectSeq(names, LAMBDA op : op # "vector.splat")

OpNames(nodes) == [k \in 1..Len(nodes) |-> nodes[k].op]

C30_VectorCastFollowsScalarCast ==
  \A n \in DOMAIN calls :
    LET c == calls[n]
    IN c.fn = "cast" =>
         /\ (c.args[1].ty.lanes # 0) # (c.ty.lanes # 0) => ~c.ok
         /\ c.args[1].ty.lanes # 0 /\ c.ty.lanes = c.args[1].ty.lanes =>
              /\ c.ok = ScalarTwin(c).ok
              /\ c.ok => /\ ConversionSteps(OpsOf(c))
                              = ConversionSteps(OpNames(ScalarTwin(c).ops))
                         /\ c.ret.ty = c.ty

====
